---- MODULE Spec2Model ----
(***************************************************************************)
(* Road network generation engine (backend/app/services/road_network.py).  *)
(*                                                                         *)
(* Arithmetic.  The service works in double precision; the model works in  *)
(* fixed point.  Horizontal positions are lattice coordinates counted in   *)
(* grid steps (one grid step is grid_resolution metres), elevations and    *)
(* distances are in decimetres, grades in hundredths of a percent, edge    *)
(* weights in hundredths of a decimetre.  Divisions and square roots round *)
(* down.  The great-circle distance is the planar distance of the lattice. *)
(***************************************************************************)
EXTENDS Integers, Sequences, FiniteSets, TLC

\* ------------------------------------------------------------------ bounds
MaxAssets == 2
MaxTopologyAssets == 4
MaxSlope == 1
MaxPathLen == 5

\* ------------------------------------------------------- program constants
total_steps == 6
SimplifyToleranceM == 2

\* --------------------------------------------------------------- input sets
Coords == {0, 1}
Positions == {p \in Coords \X Coords : p[1] >= p[2]}   \* <<lon, lat>> in grid steps
Policies == {"minimal_length", "minimal_earthwork", "minimal_grade", "balanced"}
Resolutions == {1, 3}                          \* grid_resolution, metres
MaxGrades == {400, 1200}                       \* max_grade, 0.01 percent
NoEntry == <<>>
EntryPoints == {NoEntry, <<0, 1>>}

RECURSIVE SeqsUpTo(_, _)
SeqsUpTo(S, n) ==
    IF n = 0 THEN {<<>>}
    ELSE LET shorter == SeqsUpTo(S, n - 1)
         IN shorter \cup {Append(s, x) : s \in {t \in shorter : Len(t) = n - 1}, x \in S}

\* the asset lists of a request: positions in ascending order, repeats allowed
Ascending(p, q) == p[1] < q[1] \/ (p[1] = q[1] /\ p[2] <= q[2])
AssetLists ==
    {s \in SeqsUpTo(Positions, MaxAssets) :
        \A i \in 1..(Len(s) - 1) : Ascending(s[i], s[i + 1])}

\* ------------------------------------------------------------- arithmetic
Abs(a) == IF a < 0 THEN 0 - a ELSE a
Max2(a, b) == IF a >= b THEN a ELSE b
Min2(a, b) == IF a <= b THEN a ELSE b

\* integer square root by Newton steps from above
RECURSIVE SqrtFrom(_, _)
SqrtFrom(n, r) ==
    LET next == (r + n \div r) \div 2
    IN IF next >= r THEN r ELSE SqrtFrom(n, next)
ISqrt(n) == IF n = 0 THEN 0 ELSE SqrtFrom(n, n)

SeqMin(s) == CHOOSE m \in {s[i] : i \in DOMAIN s} : \A i \in DOMAIN s : m <= s[i]
SeqMax(s) == CHOOSE m \in {s[i] : i \in DOMAIN s} : \A i \in DOMAIN s : m >= s[i]

RECURSIVE SeqSum(_)
SeqSum(s) == IF s = <<>> THEN 0 ELSE s[1] + SeqSum(Tail(s))

\* np.mean / np.max over a list of grades
Mean(s) == SeqSum(s) \div Len(s)

\* haversine_distance: distance in decimetres between two lattice points that
\* are res metres per step apart
haversine_distance(res, lon1, lat1, lon2, lat2) ==
    res * ISqrt(100 * ((lon2 - lon1) * (lon2 - lon1) + (lat2 - lat1) * (lat2 - lat1)))

\* calculate_grade: 0 below one centimetre, else rise over run, 0.01 percent
calculate_grade(res, lon1, lat1, elev1, lon2, lat2, elev2) ==
    LET horizontal_distance == haversine_distance(res, lon1, lat1, lon2, lat2)
    IN IF horizontal_distance * 10 < 1 THEN 0
       ELSE (Abs(elev2 - elev1) * 10000) \div horizontal_distance

\* ------------------------------------------------------------ grid builder
GridNode(x, y, row, col) ==
    [x |-> x, y |-> y, row |-> row, col |-> col,
     elevation |-> 0, sampled |-> FALSE, is_valid |-> TRUE]

\* variant: the loops are nested the other way round, columns outermost
generate_pathfinding_grid_by_column(minx, miny, maxx, maxy) ==
    LET num_rows_ == Max2(maxy - miny, 0)
        num_cols_ == Max2(maxx - minx, 0)
    IN [nodes |-> [i \in 1..(num_rows_ * num_cols_) |->
                      GridNode(minx + ((i - 1) \div num_rows_),
                               miny + ((i - 1) % num_rows_),
                               (i - 1) % num_rows_,
                               (i - 1) \div num_rows_)],
        num_rows |-> num_rows_,
        num_cols |-> num_cols_]

\* generate_pathfinding_grid: np.arange(min, max, step) with a step of one
\* lattice unit, rows outermost (row-major)
generate_pathfinding_grid(minx, miny, maxx, maxy) ==
    LET num_rows_ == Max2(maxy - miny, 0)
        num_cols_ == Max2(maxx - minx, 0)
    IN [nodes |-> [i \in 1..(num_rows_ * num_cols_) |->
                      GridNode(minx + ((i - 1) % num_cols_),
                               miny + ((i - 1) \div num_cols_),
                               (i - 1) \div num_cols_,
                               (i - 1) % num_cols_)],
        num_rows |-> num_rows_,
        num_cols |-> num_cols_]

\* ------------------------------------------------------- elevation sampler
\* A raster is a plane a*x + b*y (decimetres) with a nodata strip of columns;
\* fail_at = k > 0 makes the read of the k-th node raise, 0 never.
Sample(dem, x, y) ==
    IF x >= dem.nodata_lo /\ x <= dem.nodata_hi
    THEN [elevation |-> 0, sampled |-> FALSE]
    ELSE [elevation |-> dem.a * x + dem.b * y, sampled |-> TRUE]

\* lines 213-221: the sampling loop, node by node in list order; it stops at
\* the node whose read raises
RECURSIVE SampleLoop(_, _, _)
SampleLoop(nodes_, dem, i) ==
    IF i > Len(nodes_) THEN [nodes |-> nodes_, raised |-> FALSE]
    ELSE IF dem.fail_at = i THEN [nodes |-> nodes_, raised |-> TRUE]
    ELSE SampleLoop([nodes_ EXCEPT
                        ![i].elevation = Sample(dem, nodes_[i].x, nodes_[i].y).elevation,
                        ![i].sampled = Sample(dem, nodes_[i].x, nodes_[i].y).sampled],
                    dem, i + 1)

\* variant: without a raster the nodes are left as they are
FlatTerrainUnset(nodes_) == nodes_

\* lines 204-208: without a raster every node gets elevation 0
FlatTerrain(nodes_) ==
    [i \in DOMAIN nodes_ |-> [nodes_[i] EXCEPT !.elevation = 0, !.sampled = TRUE]]

\* variant: the handler fills in only the nodes that have no elevation yet
ErrorFallbackRest(nodes_) ==
    [i \in DOMAIN nodes_ |->
        IF nodes_[i].sampled THEN nodes_[i]
        ELSE [nodes_[i] EXCEPT !.elevation = 0, !.sampled = TRUE]]

\* lines 223-226: the handler of a failed read gives every node elevation 0
ErrorFallback(nodes_) ==
    [i \in DOMAIN nodes_ |-> [nodes_[i] EXCEPT !.elevation = 0, !.sampled = TRUE]]

\* load_elevation_data: flat terrain without a raster or when reading fails
load_elevation_data(nodes_, dem) ==
    IF dem.kind = "none" THEN FlatTerrain(nodes_)
    ELSE IF dem.kind = "unreadable" THEN ErrorFallback(nodes_)
    ELSE LET read == SampleLoop(nodes_, dem, 1)
         IN IF read.raised THEN ErrorFallback(read.nodes) ELSE read.nodes

\* the logger records of load_elevation_data: the warning of line 205 and the
\* error of line 224, which carries the exception of open() or of sample()
elevation_log(nodes_, dem) ==
    IF dem.kind = "none" THEN <<[kind |-> "no_dem"]>>
    ELSE IF dem.kind = "unreadable" THEN <<[kind |-> "dem_error", error |-> "open"]>>
    ELSE IF SampleLoop(nodes_, dem, 1).raised
         THEN <<[kind |-> "dem_error", error |-> "sample"]>>
    ELSE <<>>

\* --------------------------------------------------------- exclusion mask
\* A zone is an axis-aligned rectangle given in half grid steps; ok = FALSE is
\* a geometry that shape() rejects.
AxisGap(v, lo, hi) == IF v < lo THEN lo - v ELSE IF v > hi THEN v - hi ELSE 0

\* geom.buffer(buffer_deg).contains(point): strictly inside the rectangle, or
\* strictly closer to it than the buffer distance (metres)
ZoneContains(zone, buffer_distance, res, x, y) ==
    LET gx == AxisGap(2 * x, zone.x1, zone.x2)
        gy == AxisGap(2 * y, zone.y1, zone.y2)
    IN \/ 2 * x > zone.x1 /\ 2 * x < zone.x2 /\ 2 * y > zone.y1 /\ 2 * y < zone.y2
       \/ (gx * gx + gy * gy) * res * res < 4 * buffer_distance * buffer_distance

\* variant: the flag of every node is set to whether it lies outside the zones
mark_exclusion_zones_assigning(nodes_, exclusion_zones, buffer_distance, res) ==
    LET exclusion_geoms == {i \in DOMAIN exclusion_zones : exclusion_zones[i].ok}
    IN IF exclusion_zones = <<>> \/ exclusion_geoms = {}
       THEN nodes_
       ELSE [i \in DOMAIN nodes_ |->
               [nodes_[i] EXCEPT !.is_valid =
                   ~\E z \in exclusion_geoms :
                       ZoneContains(exclusion_zones[z], buffer_distance, res,
                                    nodes_[i].x, nodes_[i].y)]]

\* mark_exclusion_zones: a node inside a buffered zone that shape() accepts is
\* marked invalid; without such a zone the function returns at once
mark_exclusion_zones(nodes_, exclusion_zones, buffer_distance, res) ==
    LET exclusion_geoms == {i \in DOMAIN exclusion_zones : exclusion_zones[i].ok}
    IN IF exclusion_zones = <<>> \/ exclusion_geoms = {}
       THEN nodes_
       ELSE [i \in DOMAIN nodes_ |->
               IF \E z \in exclusion_geoms :
                     ZoneContains(exclusion_zones[z], buffer_distance, res,
                                  nodes_[i].x, nodes_[i].y)
               THEN [nodes_[i] EXCEPT !.is_valid = FALSE]
               ELSE nodes_[i]]

\* ------------------------------------------------------ cost graph builder
EmptyGraph == [nodes |-> {}, adj |-> <<>>, attr |-> <<>>]

\* variant: the four cardinal directions only, each twice
directions_cardinal ==
    << <<-1, 0>>, <<1, 0>>, <<0, -1>>, <<0, 1>>,
       <<-1, 0>>, <<1, 0>>, <<0, -1>>, <<0, 1>> >>

\* lines 296-305: the eight directions of the edge loop
directions ==
    << <<-1, 0>>, <<1, 0>>, <<0, -1>>, <<0, 1>>,
       <<-1, -1>>, <<-1, 1>>, <<1, -1>>, <<1, 1>> >>

\* node_index: the list position (from 0) of the node at (row, col)
node_index(row, col, num_cols_) == row * num_cols_ + col

\* variant: a node without elevation is a vertex as long as it is not masked
EligibleMasked(node) == node.is_valid

\* lines 292, 308 and 321: `node.is_valid and node.elevation is not None`
Eligible(node) == node.is_valid /\ node.sampled

\* variant: the balanced policy weights by the grade alone, without the 1 +
EdgeWeightGradeOnly(optimization_criteria_, distance, grade) ==
    IF optimization_criteria_ = "minimal_length" THEN distance * 100
    ELSE IF optimization_criteria_ = "minimal_earthwork"
         THEN distance * 100 + (distance * grade) \div 5
    ELSE IF optimization_criteria_ = "minimal_grade"
         THEN distance * 100 + (distance * grade * grade) \div 400
    ELSE (distance * grade) \div 10

\* the policy table of build_graph; weights in hundredths of a decimetre
EdgeWeight(optimization_criteria_, distance, grade) ==
    IF optimization_criteria_ = "minimal_length" THEN distance * 100
    ELSE IF optimization_criteria_ = "minimal_earthwork"
         THEN distance * 100 + (distance * grade) \div 5
    ELSE IF optimization_criteria_ = "minimal_grade"
         THEN distance * 100 + (distance * grade * grade) \div 400
    ELSE distance * 100 + (distance * grade) \div 10

\* variant: a steep edge is kept (and merely weighted)
GradeAllowedAlways(grade, max_grade_) == TRUE

\* the grade test of build_graph: an edge steeper than max_grade is skipped
GradeAllowed(grade, max_grade_) == ~(grade > max_grade_)

\* nx.Graph.add_edge: a new neighbour goes to the end of both adjacency
\* lists, an existing edge only has its attributes replaced
AddEdge(g, u, v, data) ==
    LET key == {u, v}
        isNew == key \notin DOMAIN g.attr
    IN IF isNew
       THEN [nodes |-> g.nodes,
             adj |-> [g.adj EXCEPT ![u] = Append(@, v), ![v] = Append(@, u)],
             attr |-> (key :> data) @@ g.attr]
       ELSE [g EXCEPT !.attr[key] = data]

\* one (node, direction) step of the edge loop of build_graph
EdgeStep(g, nodes_, num_rows_, num_cols_, max_grade_, criteria, res, i, d) ==
    LET node == nodes_[i]
        new_row == node.row + directions[d][1]
        new_col == node.col + directions[d][2]
        idx1 == node_index(node.row, node.col, num_cols_)
        neighbor_idx == node_index(new_row, new_col, num_cols_)
    IN IF ~Eligible(node) THEN g
       ELSE IF ~(0 <= new_row /\ new_row < num_rows_ /\ 0 <= new_col /\ new_col < num_cols_)
       THEN g
       ELSE LET neighbor == nodes_[neighbor_idx + 1]
                distance == haversine_distance(res, node.x, node.y, neighbor.x, neighbor.y)
                grade == calculate_grade(res, node.x, node.y, node.elevation,
                                         neighbor.x, neighbor.y, neighbor.elevation)
            IN IF ~Eligible(neighbor) THEN g
               ELSE IF neighbor_idx \notin g.nodes THEN g
               ELSE IF ~GradeAllowed(grade, max_grade_) THEN g
               ELSE AddEdge(g, idx1, neighbor_idx,
                            [weight |-> EdgeWeight(criteria, distance, grade),
                             distance |-> distance, grade |-> grade])

RECURSIVE EdgeLoop(_, _, _, _, _, _, _, _)
EdgeLoop(g, nodes_, num_rows_, num_cols_, max_grade_, criteria, res, k) ==
    IF k >= Len(nodes_) * 8 \/ g.nodes = {} THEN g
    ELSE EdgeLoop(EdgeStep(g, nodes_, num_rows_, num_cols_, max_grade_, criteria, res,
                           (k \div 8) + 1, (k % 8) + 1),
                  nodes_, num_rows_, num_cols_, max_grade_, criteria, res, k + 1)

\* build_graph: vertices are the valid sampled nodes, edges join 8-neighbours
build_graph(nodes_, num_rows_, num_cols_, max_grade_, criteria, res) ==
    LET verts == {node_index(nodes_[i].row, nodes_[i].col, num_cols_) :
                     i \in {j \in DOMAIN nodes_ : Eligible(nodes_[j])}}
        g0 == [nodes |-> verts, adj |-> [n \in verts |-> <<>>], attr |-> <<>>]
    IN EdgeLoop(g0, nodes_, num_rows_, num_cols_, max_grade_, criteria, res, 0)

\* ------------------------------------------------------------ path search
None == -1

\* find_nearest_node: linear scan, the first node at the least distance wins
RECURSIVE NearestScan(_, _, _, _, _, _, _, _, _)
NearestScan(g, nodes_, num_cols_, res, target_lon, target_lat, i, min_dist, nearest_idx) ==
    IF i > Len(nodes_) THEN nearest_idx
    ELSE LET node == nodes_[i]
             idx == node.row * num_cols_ + node.col
             dist == haversine_distance(res, target_lon, target_lat, node.x, node.y)
         IN IF ~Eligible(node) \/ idx \notin g.nodes
            THEN NearestScan(g, nodes_, num_cols_, res, target_lon, target_lat,
                             i + 1, min_dist, nearest_idx)
            ELSE IF nearest_idx = None \/ dist < min_dist
            THEN NearestScan(g, nodes_, num_cols_, res, target_lon, target_lat,
                             i + 1, dist, idx)
            ELSE NearestScan(g, nodes_, num_cols_, res, target_lon, target_lat,
                             i + 1, min_dist, nearest_idx)

find_nearest_node(g, nodes_, num_cols_, res, target_lon, target_lat) ==
    NearestScan(g, nodes_, num_cols_, res, target_lon, target_lat, 1, 0, None)

\* variant: the heuristic overestimates, eight times the great-circle distance
heuristic_inflated(nodes_, res, n1, n2) ==
    800 * haversine_distance(res, nodes_[n1 + 1].x, nodes_[n1 + 1].y,
                             nodes_[n2 + 1].x, nodes_[n2 + 1].y)

\* the heuristic of astar_path: great-circle distance between two vertices,
\* in the unit of the edge weights
heuristic(nodes_, res, n1, n2) ==
    100 * haversine_distance(res, nodes_[n1 + 1].x, nodes_[n1 + 1].y,
                             nodes_[n2 + 1].x, nodes_[n2 + 1].y)

\* heap order of the A* queue: priority first, then insertion counter
QueueMin(queue) ==
    CHOOSE e \in queue : \A f \in queue :
        e[1] < f[1] \/ (e[1] = f[1] /\ e[2] <= f[2])

\* the neighbour loop of nx.astar_path for the vertex just explored
RECURSIVE AstarRelax(_, _, _, _, _, _, _, _)
AstarRelax(g, nodes_, res, target, st, curnode, dist, k) ==
    IF k > Len(g.adj[curnode]) THEN st
    ELSE LET neighbor == g.adj[curnode][k]
             ncost == dist + g.attr[{curnode, neighbor}].weight
             known == neighbor \in DOMAIN st.enqueued
         IN IF known /\ st.enqueued[neighbor] <= ncost
            THEN AstarRelax(g, nodes_, res, target, st, curnode, dist, k + 1)
            ELSE AstarRelax(g, nodes_, res, target,
                    [st EXCEPT
                       !.enqueued = IF known THEN [@ EXCEPT ![neighbor] = ncost]
                                    ELSE (neighbor :> ncost) @@ @,
                       !.queue = st.queue \cup
                                 {<<ncost + heuristic(nodes_, res, neighbor, target),
                                    st.c, neighbor, ncost, curnode>>},
                       !.c = st.c + 1],
                    curnode, dist, k + 1)

RECURSIVE AstarBack(_, _, _)
AstarBack(explored, node, path) ==
    IF node = None THEN path
    ELSE AstarBack(explored, explored[node], <<node>> \o path)

\* the main loop of nx.astar_path; None stands for NetworkXNoPath
RECURSIVE AstarLoop(_, _, _, _, _)
AstarLoop(g, nodes_, res, target, st) ==
    IF st.queue = {} THEN <<None>>
    ELSE LET top == QueueMin(st.queue)
             curnode == top[3]
             dist == top[4]
             parent == top[5]
             rest == [st EXCEPT !.queue = st.queue \ {top}]
         IN IF curnode = target
            THEN AstarBack(st.explored, parent, <<curnode>>)
            ELSE IF curnode \in DOMAIN st.explored
                    /\ (st.explored[curnode] = None \/ st.enqueued[curnode] < dist)
            THEN AstarLoop(g, nodes_, res, target, rest)
            ELSE AstarLoop(g, nodes_, res, target,
                    AstarRelax(g, nodes_, res, target,
                       [rest EXCEPT !.explored =
                           [n \in DOMAIN st.explored \cup {curnode} |->
                               IF n = curnode THEN parent ELSE st.explored[n]]],
                       curnode, dist, 1))

\* astar_path: the node sequence of a cheapest path, or <<None>> when an
\* endpoint is no vertex or the target cannot be reached
astar_path(g, source, target, nodes_, res) ==
    IF source \notin g.nodes \/ target \notin g.nodes THEN <<None>>
    ELSE AstarLoop(g, nodes_, res, target,
                   [queue |-> {<<0, 0, source, 0, None>>}, c |-> 1,
                    enqueued |-> <<>>, explored |-> <<>>])

\* extract_path_coordinates: [lon, lat, elev] of every vertex of the path
extract_path_coordinates(path, nodes_) ==
    [i \in DOMAIN path |->
        <<nodes_[path[i] + 1].x, nodes_[path[i] + 1].y, nodes_[path[i] + 1].elevation>>]

\* ------------------------------------------------------- path simplifier
\* squared distance, in grid steps, from point p to the segment a-b as a
\* fraction <<numerator, denominator>>
SegDist2(coords, a, b, p) ==
    LET ax == coords[a][1]
        ay == coords[a][2]
        bx == coords[b][1]
        by == coords[b][2]
        px == coords[p][1]
        py == coords[p][2]
        len2 == (bx - ax) * (bx - ax) + (by - ay) * (by - ay)
        dot == (px - ax) * (bx - ax) + (py - ay) * (by - ay)
        cross == (px - ax) * (by - ay) - (py - ay) * (bx - ax)
    IN IF len2 = 0 \/ dot <= 0 THEN <<(px - ax) * (px - ax) + (py - ay) * (py - ay), 1>>
       ELSE IF dot >= len2 THEN <<(px - bx) * (px - bx) + (py - by) * (py - by), 1>>
       ELSE <<cross * cross, len2>>

FracGreater(f, g) == f[1] * g[2] > g[1] * f[2]

\* the first interior vertex of the section i..j farthest from the chord i-j
RECURSIVE FurthestFrom(_, _, _, _, _)
FurthestFrom(coords, i, j, k, best) ==
    IF k >= j THEN best
    ELSE IF FracGreater(SegDist2(coords, i, j, k), SegDist2(coords, i, j, best))
         THEN FurthestFrom(coords, i, j, k + 1, k)
         ELSE FurthestFrom(coords, i, j, k + 1, best)

\* a section whose farthest vertex is within the tolerance collapses
WithinTolerance(dist2, tolerance_m, res) ==
    dist2[1] * res * res <= tolerance_m * tolerance_m * dist2[2]

\* preserve_topology=True: a section is flattened to its chord only when the
\* chord meets no other segment of the line in an interior point of either
Sign(v) == IF v > 0 THEN 1 ELSE IF v < 0 THEN -1 ELSE 0
Orient(a, b, c) == Sign((b[1] - a[1]) * (c[2] - a[2]) - (b[2] - a[2]) * (c[1] - a[1]))
StrictlyInside(a, b, p) ==
    /\ <<p[1], p[2]>> # <<a[1], a[2]>>
    /\ <<p[1], p[2]>> # <<b[1], b[2]>>
    /\ Orient(a, b, p) = 0
    /\ Min2(a[1], b[1]) <= p[1] /\ p[1] <= Max2(a[1], b[1])
    /\ Min2(a[2], b[2]) <= p[2] /\ p[2] <= Max2(a[2], b[2])
hasInteriorIntersection(a, b, c, d) ==
    \/ Orient(a, b, c) * Orient(a, b, d) < 0 /\ Orient(c, d, a) * Orient(c, d, b) < 0
    \/ StrictlyInside(a, b, c) \/ StrictlyInside(a, b, d)
    \/ StrictlyInside(c, d, a) \/ StrictlyInside(c, d, b)

\* the chord i-j against the chords already put out and against the segments
\* of the line that are still in the input index, those of the section excepted
hasBadIntersection(coords, i, j, st) ==
    \/ \E o \in st.output :
          hasInteriorIntersection(coords[o[1]], coords[o[2]], coords[i], coords[j])
    \/ \E k \in st.input :
          /\ k < i \/ k >= j
          /\ hasInteriorIntersection(coords[k], coords[k + 1], coords[i], coords[j])

\* LineString.simplify with preserve_topology=True (Douglas-Peucker sections
\* with the topology test): st.kept gets the indices of the vertices kept in
\* the section i..j, the end j excluded; a flattened section leaves the input
\* index and its chord enters the output index
RECURSIVE SimplifySection(_, _, _, _, _, _)
SimplifySection(coords, i, j, tolerance_m, res, st) ==
    IF i + 1 >= j THEN [st EXCEPT !.kept = Append(@, i)]
    ELSE LET f == FurthestFrom(coords, i, j, i + 2, i + 1)
         IN IF /\ WithinTolerance(SegDist2(coords, i, j, f), tolerance_m, res)
               /\ ~hasBadIntersection(coords, i, j, st)
            THEN [kept |-> Append(st.kept, i),
                  input |-> st.input \ (i..(j - 1)),
                  output |-> st.output \cup {<<i, j>>}]
            ELSE SimplifySection(coords, f, j, tolerance_m, res,
                    SimplifySection(coords, i, f, tolerance_m, res, st))

\* the elevation of the first original vertex nearest to (sx, sy)
RECURSIVE ClosestElev(_, _, _, _, _, _)
ClosestElev(coords, sx, sy, k, min_dist, best_elev) ==
    IF k > Len(coords) THEN best_elev
    ELSE LET dist == Abs(coords[k][1] - sx) + Abs(coords[k][2] - sy)
         IN IF k = 1 \/ dist < min_dist
            THEN ClosestElev(coords, sx, sy, k + 1, dist, coords[k][3])
            ELSE ClosestElev(coords, sx, sy, k + 1, min_dist, best_elev)

\* variant: every kept vertex gets the elevation of the path's first vertex
simplify_path_first_elev(coords, tolerance_m, res) ==
    IF Len(coords) < 3 THEN coords
    ELSE LET kept == SimplifySection(coords, 1, Len(coords), tolerance_m, res,
                                     [kept |-> <<>>, input |-> 1..(Len(coords) - 1),
                                      output |-> {}]).kept
                     \o <<Len(coords)>>
         IN [n \in DOMAIN kept |->
               <<coords[kept[n]][1], coords[kept[n]][2], coords[1][3]>>]

\* simplify_path: short paths are returned as they are; otherwise the kept
\* vertices get their elevation back from the nearest original vertex
simplify_path(coords, tolerance_m, res) ==
    IF Len(coords) < 3 THEN coords
    ELSE LET kept == SimplifySection(coords, 1, Len(coords), tolerance_m, res,
                                     [kept |-> <<>>, input |-> 1..(Len(coords) - 1),
                                      output |-> {}]).kept
                     \o <<Len(coords)>>
         IN [n \in DOMAIN kept |->
               <<coords[kept[n]][1], coords[kept[n]][2],
                 ClosestElev(coords, coords[kept[n]][1], coords[kept[n]][2], 1, 0, coords[1][3])>>]

\* calculate_segment_metrics: length, average and maximum grade of a polyline
SegmentGrades(coords, res) ==
    LET steps == SelectSeq([i \in 1..(Len(coords) - 1) |-> i],
                   LAMBDA i : haversine_distance(res, coords[i][1], coords[i][2],
                                 coords[i + 1][1], coords[i + 1][2]) * 10 > 1)
    IN [n \in DOMAIN steps |->
          calculate_grade(res, coords[steps[n]][1], coords[steps[n]][2], coords[steps[n]][3],
                          coords[steps[n] + 1][1], coords[steps[n] + 1][2],
                          coords[steps[n] + 1][3])]

calculate_segment_metrics(coords, res) ==
    IF Len(coords) < 2
    THEN [length_m |-> 0, avg_grade |-> 0, max_grade |-> 0]
    ELSE LET grades == SegmentGrades(coords, res)
         IN [length_m |-> SeqSum([i \in 1..(Len(coords) - 1) |->
                             haversine_distance(res, coords[i][1], coords[i][2],
                                                coords[i + 1][1], coords[i + 1][2])]),
             avg_grade |-> IF grades = <<>> THEN 0 ELSE Mean(grades),
             max_grade |-> IF grades = <<>> THEN 0 ELSE SeqMax(grades)]

\* create_road_polygon: no corridor for fewer than two vertices
NoPolygon == <<>>
create_road_polygon(centerline) ==
    IF Len(centerline) < 2 THEN NoPolygon
    ELSE [i \in DOMAIN centerline |-> <<centerline[i][1], centerline[i][2]>>]

\* ------------------------------------------------------ topology selector
\* the edges of the complete asset graph in the order nx.Graph.edges lists them
RECURSIVE CompleteEdges(_, _, _)
CompleteEdges(n, i, j) ==
    IF i >= n - 1 THEN <<>>
    ELSE IF j >= n THEN CompleteEdges(n, i + 1, i + 2)
    ELSE <<[u |-> i, v |-> j]>> \o CompleteEdges(n, i, j + 1)

AssetDistance(asset_positions_, res, i, j) ==
    haversine_distance(res, asset_positions_[i + 1][1], asset_positions_[i + 1][2],
                       asset_positions_[j + 1][1], asset_positions_[j + 1][2])

\* variant: coincident assets are not joined in the asset graph
AssetGraphEdgesApart(asset_positions_, res) ==
    SelectSeq(CompleteEdges(Len(asset_positions_), 0, 1),
              LAMBDA e : AssetDistance(asset_positions_, res, e.u, e.v) > 0)

\* lines 549-554: every pair of assets is an edge of the asset graph
AssetGraphEdges(asset_positions_, res) == CompleteEdges(Len(asset_positions_), 0, 1)

\* variant: the edges are taken in the order they were added, unsorted
SortByInsertion(edges, asset_positions_, res) == edges

\* sorted(edges, key=weight): stable, so equal weights keep their list order
RECURSIVE SortByWeight(_, _, _)
SortByWeight(edges, asset_positions_, res) ==
    IF edges = <<>> THEN <<>>
    ELSE LET w(k) == AssetDistance(asset_positions_, res, edges[k].u, edges[k].v)
             m == CHOOSE k \in DOMAIN edges :
                     \A l \in DOMAIN edges : w(k) < w(l) \/ (w(k) = w(l) /\ k <= l)
         IN <<edges[m]>> \o
            SortByWeight([k \in 1..(Len(edges) - 1) |->
                             IF k < m THEN edges[k] ELSE edges[k + 1]],
                         asset_positions_, res)

\* an edge joins the tree when its ends lie in different components
KruskalAccepts(comp, e) == comp[e.u] # comp[e.v]

\* Kruskal's union-find pass over the sorted edges
RECURSIVE KruskalPass(_, _, _)
KruskalPass(sorted, k, comp) ==
    IF k > Len(sorted) THEN <<>>
    ELSE LET e == sorted[k]
         IN IF KruskalAccepts(comp, e)
            THEN <<e>> \o KruskalPass(sorted, k + 1,
                             [n \in DOMAIN comp |->
                                 IF comp[n] = comp[e.v] THEN comp[e.u] ELSE comp[n]])
            ELSE KruskalPass(sorted, k + 1, comp)

\* nx.Graph.edges of the tree: by first endpoint in node order, then in the
\* order the edges were added
RECURSIVE EdgeView(_, _, _)
EdgeView(tree, n, u) ==
    IF u >= n THEN <<>>
    ELSE [k \in DOMAIN SelectSeq(tree, LAMBDA e : e.u = u) |->
             <<SelectSeq(tree, LAMBDA e : e.u = u)[k].u,
               SelectSeq(tree, LAMBDA e : e.u = u)[k].v>>]
         \o EdgeView(tree, n, u + 1)

\* build_minimum_spanning_tree: no edge below two assets
build_minimum_spanning_tree(asset_positions_, g, nodes_, num_cols_, res) ==
    LET n == Len(asset_positions_)
        asset_nodes == [i \in DOMAIN asset_positions_ |->
                          find_nearest_node(g, nodes_, num_cols_, res,
                                            asset_positions_[i][1], asset_positions_[i][2])]
    IN IF n < 2 THEN <<>>
       ELSE EdgeView(KruskalPass(SortByWeight(AssetGraphEdges(asset_positions_, res),
                                              asset_positions_, res),
                                 1, [i \in 0..(n - 1) |-> i]),
                     n, 0)

\* variant: `<=` in the comparison, the highest index among equals
RECURSIVE NearestAssetLast(_, _, _, _, _, _)
NearestAssetLast(asset_positions_, entry, res, i, min_dist, nearest_asset) ==
    IF i > Len(asset_positions_) THEN nearest_asset
    ELSE LET dist == haversine_distance(res, entry[1], entry[2],
                                        asset_positions_[i][1], asset_positions_[i][2])
         IN IF i = 1 \/ dist <= min_dist
            THEN NearestAssetLast(asset_positions_, entry, res, i + 1, dist, i - 1)
            ELSE NearestAssetLast(asset_positions_, entry, res, i + 1, min_dist, nearest_asset)

\* the asset nearest to the entry point, the lowest index among equals
RECURSIVE NearestAsset(_, _, _, _, _, _)
NearestAsset(asset_positions_, entry, res, i, min_dist, nearest_asset) ==
    IF i > Len(asset_positions_) THEN nearest_asset
    ELSE LET dist == haversine_distance(res, entry[1], entry[2],
                                        asset_positions_[i][1], asset_positions_[i][2])
         IN IF i = 1 \/ dist < min_dist
            THEN NearestAsset(asset_positions_, entry, res, i + 1, dist, i - 1)
            ELSE NearestAsset(asset_positions_, entry, res, i + 1, min_dist, nearest_asset)

\* the topology edges of generate_road_network: the spanning tree, then the
\* entry edge when an entry point and at least one asset are given
TopologyEdges(asset_positions_, entry, g, nodes_, num_cols_, res) ==
    IF entry # NoEntry /\ asset_positions_ # <<>>
    THEN Append(build_minimum_spanning_tree(asset_positions_, g, nodes_, num_cols_, res),
                <<Len(asset_positions_),
                  NearestAsset(asset_positions_, entry, res, 1, 0, 0)>>)
    ELSE build_minimum_spanning_tree(asset_positions_, g, nodes_, num_cols_, res)

\* ------------------------------------------------------------ orchestrator
VARIABLES
    asset_positions,        \* input: sequence of <<lon, lat>>
    entry_point,            \* input: <<lon, lat>> or NoEntry
    max_grade,              \* input, 0.01 percent
    optimization_criteria,  \* input
    grid_resolution,        \* input, metres per grid step
    pc,                     \* position inside generate_road_network
    progress_calls,         \* percentages handed to the progress callback
    nodes, num_rows, num_cols,
    G,                      \* the cost graph
    mst_edges,              \* topology edges
    edge_i,                 \* index of the next topology edge to route
    log,                    \* logger records: graph size, skipped edges, exception
    segments, all_grades, assets_connected_set, all_centerlines, road_polygons,
    algorithm_iterations,
    result,                 \* the returned RoadNetworkResult, {} before return
    call,                   \* dem_path, exclusion_zones and exclusion_buffer of a
                            \* call that is given them up front, Unset otherwise
    runs,                   \* two requests in flight: the one that is running and
                            \* the saved frames of both, Unset for a single request
    network                 \* the road-network record of the endpoint: status,
                            \* progress_percent, error_message; Unset without one

vars == <<asset_positions, entry_point, max_grade, optimization_criteria,
          grid_resolution, pc, progress_calls, nodes, num_rows, num_cols, G,
          mst_edges, edge_i, log, segments, all_grades,
          assets_connected_set, all_centerlines, road_polygons,
          algorithm_iterations, result, call, runs, network>>

Unset == <<>>
harness == <<call, runs>>

inputs == <<asset_positions, entry_point, max_grade, optimization_criteria,
            grid_resolution>>
accumulators == <<segments, all_grades, assets_connected_set, all_centerlines,
                  road_polygons, algorithm_iterations>>

\* rasters the elevation sampler may be given
Dems ==
    {[kind |-> k, a |-> 0, b |-> 0, nodata_lo |-> 1, nodata_hi |-> 0, fail_at |-> 0] :
        k \in {"none", "unreadable"}}
    \cup {[kind |-> "raster", a |-> a, b |-> b, nodata_lo |-> 1, nodata_hi |-> 0,
            fail_at |-> 0] : a \in {0, MaxSlope}, b \in {0, MaxSlope}}
    \cup {[kind |-> "raster", a |-> 0, b |-> 0, nodata_lo |-> s[1], nodata_hi |-> s[2],
            fail_at |-> 0] : s \in {<<0, 0>>, <<-1, 0>>}}
    \cup {[kind |-> "raster", a |-> MaxSlope, b |-> MaxSlope, nodata_lo |-> 1,
            nodata_hi |-> 0, fail_at |-> 3]}

\* exclusion inputs: zone lists with their buffer distance (metres)
BadZone == [ok |-> FALSE, x1 |-> 0, x2 |-> 0, y1 |-> 0, y2 |-> 0]
Strip(x1, x2) == [ok |-> TRUE, x1 |-> x1, x2 |-> x2, y1 |-> -3, y2 |-> 3]
Exclusions ==
    {[zones |-> <<>>, buffer |-> 0],
     [zones |-> <<BadZone>>, buffer |-> 0],
     [zones |-> <<Strip(-1, 1)>>, buffer |-> 0],
     [zones |-> <<BadZone, Strip(-1, 1)>>, buffer |-> 1]}

\* variant: the percentage is rounded to the nearest integer
progress_percent_rounded(step) == (step * 100 + total_steps \div 2) \div total_steps

\* ProgressTracker.update: the percentage reported for a step, int() truncates
progress_percent(step) == (step * 100) \div total_steps

\* CRUDRoadNetwork.update_status: status, percentage and error message of the
\* record are overwritten together; {} is None
update_status(db_obj, status, percent, error_message) ==
    [db_obj EXCEPT !.status = status, !.progress_percent = percent,
                   !.error_message = error_message]

\* the progress callback of the endpoint; a request made without a record
\* (callback=None) has nothing to call
progress_callback(db_obj, percent) ==
    IF db_obj = Unset THEN db_obj
    ELSE update_status(db_obj, "processing", percent, {})

\* variant: a failed result leaves the error message of the record as it is
update_with_results_silent(db_obj, res) ==
    IF res.success
    THEN [db_obj EXCEPT !.status = "completed", !.progress_percent = 100]
    ELSE [db_obj EXCEPT !.status = "failed"]

\* CRUDRoadNetwork.update_with_results: COMPLETED at 100 percent for a
\* success, FAILED with the result's error message otherwise
update_with_results(db_obj, res) ==
    IF res.success
    THEN [db_obj EXCEPT !.status = "completed", !.progress_percent = 100]
    ELSE [db_obj EXCEPT !.status = "failed", !.error_message = res.error_message]

\* RoadNetworkResult with its dataclass defaults; {} is None
FailureResult(msg) ==
    [success |-> FALSE, road_centerlines |-> {}, road_polygons |-> {},
     road_details |-> <<>>, total_road_length |-> 0, total_segments |-> 0,
     avg_grade |-> 0, max_grade_actual |-> 0, grade_compliant |-> TRUE,
     assets_connected |-> 0, connectivity_rate |-> 0,
     algorithm_iterations |-> 0, error_message |-> {msg}]

Init ==
    /\ asset_positions \in AssetLists
    /\ entry_point \in EntryPoints
    /\ max_grade \in MaxGrades
    /\ optimization_criteria \in Policies
    /\ grid_resolution \in Resolutions
    /\ pc = "start"
    /\ progress_calls = <<>>
    /\ nodes = <<>>
    /\ num_rows = 0
    /\ num_cols = 0
    /\ G = EmptyGraph
    /\ mst_edges = <<>>
    /\ edge_i = 1
    /\ log = <<>>
    /\ segments = <<>>
    /\ all_grades = <<>>
    /\ assets_connected_set = {}
    /\ all_centerlines = <<>>
    /\ road_polygons = <<>>
    /\ algorithm_iterations = 0
    /\ result = {}
    /\ call = Unset
    /\ runs = Unset
    /\ network = Unset

\* variant: the first progress report precedes the check for assets
NoAssetsAfterReport ==
    /\ pc = "start"
    /\ Len(asset_positions) < 1
    /\ progress_calls' = Append(progress_calls, progress_percent(1))
    /\ network' = progress_callback(network, progress_percent(1))
    /\ result' = {FailureResult("No assets to connect")}
    /\ pc' = "done"
    /\ UNCHANGED <<harness, inputs, nodes, num_rows, num_cols, G, mst_edges, edge_i, log,
                   accumulators>>

\* lines 600-603: nothing to connect
NoAssets ==
    /\ pc = "start"
    /\ Len(asset_positions) < 1
    /\ result' = {FailureResult("No assets to connect")}
    /\ pc' = "done"
    /\ UNCHANGED <<harness, network, inputs, progress_calls, nodes, num_rows, num_cols, G,
                   mst_edges, edge_i, log, accumulators>>

\* the padded bounds of lines 608-622; the padding is one grid step
all_points == IF entry_point # NoEntry THEN Append(asset_positions, entry_point)
              ELSE asset_positions
lons == [i \in DOMAIN all_points |-> all_points[i][1]]
lats == [i \in DOMAIN all_points |-> all_points[i][2]]
padding == Max2(1, (SeqMax(lons) - SeqMin(lons)) \div 10)

\* step 1, lines 605-625
GenerateGrid ==
    /\ pc = "start"
    /\ Len(asset_positions) >= 1
    /\ progress_calls' = Append(progress_calls, progress_percent(1))
    /\ network' = progress_callback(network, progress_percent(1))
    /\ LET grid == generate_pathfinding_grid(SeqMin(lons) - padding, SeqMin(lats) - padding,
                                             SeqMax(lons) + padding, SeqMax(lats) + padding)
       IN /\ nodes' = grid.nodes
          /\ num_rows' = grid.num_rows
          /\ num_cols' = grid.num_cols
    /\ pc' = "elevation"
    /\ UNCHANGED <<harness, inputs, G, mst_edges, edge_i, log, accumulators, result>>

\* step 2, lines 627-629, for a given dem_path
LoadElevationWith(dem) ==
    /\ pc = "elevation"
    /\ progress_calls' = Append(progress_calls, progress_percent(2))
    /\ network' = progress_callback(network, progress_percent(2))
    /\ nodes' = load_elevation_data(nodes, dem)
    /\ log' = log \o elevation_log(nodes, dem)
    /\ pc' = "mask"
    /\ UNCHANGED <<harness, inputs, num_rows, num_cols, G, mst_edges, edge_i, accumulators, result>>

LoadElevation == \E dem \in Dems : LoadElevationWith(dem)

\* step 3, lines 631-633, for given exclusion_zones and exclusion_buffer
MarkExclusionsWith(ex) ==
    /\ pc = "mask"
    /\ progress_calls' = Append(progress_calls, progress_percent(3))
    /\ network' = progress_callback(network, progress_percent(3))
    /\ nodes' = mark_exclusion_zones(nodes, ex.zones, ex.buffer, grid_resolution)
    /\ pc' = "graph"
    /\ UNCHANGED <<harness, inputs, num_rows, num_cols, G, mst_edges, edge_i, log, accumulators,
                   result>>

MarkExclusions == \E ex \in Exclusions : MarkExclusionsWith(ex)

\* variant: an empty graph is not noticed
EmptyGraphFailsNever(g) == FALSE

\* line 643: a graph without vertices fails the request
EmptyGraphFails(g) == Cardinality(g.nodes) = 0

\* step 4, lines 635-647: an empty graph ends the request
BuildGraph ==
    /\ pc = "graph"
    /\ progress_calls' = Append(progress_calls, progress_percent(4))
    /\ network' = progress_callback(network, progress_percent(4))
    /\ G' = build_graph(nodes, num_rows, num_cols, max_grade, optimization_criteria,
                        grid_resolution)
    /\ log' = Append(log, [kind |-> "graph_built", vertices |-> Cardinality(G'.nodes)])
    /\ IF EmptyGraphFails(G')
       THEN /\ result' = {FailureResult("No valid path nodes (check exclusions/terrain)")}
            /\ pc' = "done"
       ELSE /\ result' = result
            /\ pc' = "topology"
    /\ UNCHANGED <<harness, inputs, nodes, num_rows, num_cols, mst_edges, edge_i, accumulators>>

\* step 5, lines 649-680: the topology edges and the empty accumulators
ComputeTopology ==
    /\ pc = "topology"
    /\ progress_calls' = Append(progress_calls, progress_percent(5))
    /\ network' = progress_callback(network, progress_percent(5))
    /\ mst_edges' = TopologyEdges(asset_positions, entry_point, G, nodes, num_cols,
                                  grid_resolution)
    /\ edge_i' = 1
    /\ pc' = "paths"
    /\ UNCHANGED <<harness, inputs, nodes, num_rows, num_cols, G, log, accumulators, result>>

\* lines 656-671: the positions the topology edges index into
all_positions == IF entry_point # NoEntry /\ asset_positions # <<>>
                 THEN Append(asset_positions, entry_point)
                 ELSE asset_positions

\* variant: `break`, the loop ends at the first edge that cannot be routed
AfterSkipBreak(i, n) == n + 1

\* `continue` at lines 692 and 702: the loop goes on with the next edge
AfterSkip(i, n) == i + 1

\* variant: a centerline, like a corridor, needs two vertices
CenterlinesAfterTwo(centerlines, coords) ==
    IF Len(coords) < 2 THEN centerlines
    ELSE Append(centerlines, [i \in DOMAIN coords |-> <<coords[i][1], coords[i][2]>>])

\* lines 736-738: the 2D centerline of every segment is kept
CenterlinesAfter(centerlines, coords) ==
    Append(centerlines, [i \in DOMAIN coords |-> <<coords[i][1], coords[i][2]>>])

\* variant: only a search that finds a path is counted
IterationsAfterFound(n, path) == IF path = <<None>> THEN n ELSE n + 1

\* line 696: every A* invocation is counted, whatever it returns
IterationsAfter(n, path) == n + 1

\* variant: every endpoint of a routed segment is counted, the entry point too
CountedAssetsWithEntry(connected, n) == connected

\* lines 760-762: the connected indices that are assets; index n is the entry
CountedAssets(connected, n) == {i \in connected : i < n}

\* lines 690-692 and 698-702: an edge without endpoint node or without path
\* is logged and skipped
SkipEdge(reason) ==
    /\ log' = Append(log, [kind |-> reason, edge |-> mst_edges[edge_i]])
    /\ UNCHANGED <<segments, all_grades, assets_connected_set, all_centerlines,
                   road_polygons>>

\* variant: the segment ids continue a count kept outside the request, with
\* the module's logger
NextSegmentIdShared == Len(log)

\* lines 676 and 745: segment_id is a local that counts the segments kept
NextSegmentId == Len(segments)

\* lines 704-745: the segment of a routed edge and the running statistics
KeepSegment(asset_idx1, asset_idx2, path) ==
    LET coords == simplify_path(extract_path_coordinates(path, nodes),
                                SimplifyToleranceM, grid_resolution)
        m == calculate_segment_metrics(coords, grid_resolution)
        polygon == create_road_polygon(coords)
    IN /\ segments' = Append(segments,
                         [id |-> NextSegmentId, from_node |-> asset_idx1,
                          to_node |-> asset_idx2, coordinates |-> coords,
                          length_m |-> m.length_m, avg_grade |-> m.avg_grade,
                          max_grade |-> m.max_grade])
       /\ all_grades' = IF m.max_grade > 0
                        THEN all_grades \o <<m.avg_grade, m.max_grade>>
                        ELSE Append(all_grades, m.avg_grade)
       /\ assets_connected_set' = assets_connected_set \cup {asset_idx1, asset_idx2}
       /\ all_centerlines' = CenterlinesAfter(all_centerlines, coords)
       /\ road_polygons' = IF polygon # NoPolygon THEN Append(road_polygons, polygon)
                           ELSE road_polygons
       /\ log' = log

\* one iteration of the loop of lines 682-745
RouteEdge ==
    /\ pc = "paths"
    /\ edge_i <= Len(mst_edges)
    /\ LET asset_idx1 == mst_edges[edge_i][1]
           asset_idx2 == mst_edges[edge_i][2]
           node1 == find_nearest_node(G, nodes, num_cols, grid_resolution,
                       all_positions[asset_idx1 + 1][1], all_positions[asset_idx1 + 1][2])
           node2 == find_nearest_node(G, nodes, num_cols, grid_resolution,
                       all_positions[asset_idx2 + 1][1], all_positions[asset_idx2 + 1][2])
           path == astar_path(G, node1, node2, nodes, grid_resolution)
       IN IF node1 = None \/ node2 = None
          THEN /\ SkipEdge("no_node")
               /\ algorithm_iterations' = algorithm_iterations
               /\ edge_i' = AfterSkip(edge_i, Len(mst_edges))
          ELSE /\ algorithm_iterations' = IterationsAfter(algorithm_iterations, path)
               /\ IF path = <<None>>
                  THEN /\ SkipEdge("no_path")
                       /\ edge_i' = AfterSkip(edge_i, Len(mst_edges))
                  ELSE /\ KeepSegment(asset_idx1, asset_idx2, path)
                       /\ edge_i' = edge_i + 1
    /\ UNCHANGED <<harness, network, inputs, pc, progress_calls, nodes, num_rows, num_cols, G,
                   mst_edges, result>>

\* step 6, lines 747-815
CompileResults ==
    /\ pc = "paths"
    /\ edge_i > Len(mst_edges)
    /\ progress_calls' = Append(progress_calls, progress_percent(6))
    /\ network' = progress_callback(network, progress_percent(6))
    /\ LET avg_grade_overall == IF all_grades = <<>> THEN 0 ELSE Mean(all_grades)
           max_grade_overall == IF all_grades = <<>> THEN 0 ELSE SeqMax(all_grades)
           num_assets_connected ==
               Cardinality(CountedAssets(assets_connected_set, Len(asset_positions)))
       IN result' =
            {[success |-> TRUE,
              road_centerlines |-> {all_centerlines},
              road_polygons |-> IF road_polygons # <<>> THEN {road_polygons} ELSE {},
              road_details |-> segments,
              total_road_length |-> SeqSum([i \in DOMAIN segments |-> segments[i].length_m]),
              total_segments |-> Len(segments),
              avg_grade |-> avg_grade_overall,
              max_grade_actual |-> max_grade_overall,
              grade_compliant |-> (max_grade_overall <= max_grade),
              assets_connected |-> num_assets_connected,
              connectivity_rate |-> IF asset_positions # <<>>
                                    THEN (num_assets_connected * 100) \div Len(asset_positions)
                                    ELSE 0,
              algorithm_iterations |-> algorithm_iterations,
              error_message |-> {}]}
    /\ pc' = "done"
    /\ UNCHANGED <<harness, inputs, nodes, num_rows, num_cols, G, mst_edges, edge_i, log,
                   accumulators>>

\* the step a position of the pipeline reports to the progress tracker, 0 when
\* the next thing to run reports nothing
ReportedStep ==
    IF pc = "start" THEN 1
    ELSE IF pc = "elevation" THEN 2
    ELSE IF pc = "mask" THEN 3
    ELSE IF pc = "graph" THEN 4
    ELSE IF pc = "topology" THEN 5
    ELSE IF pc = "paths" /\ edge_i > Len(mst_edges) THEN 6
    ELSE 0

\* variant: the try block opens after the grid has been generated
CaughtAfterGrid(position) == position \in {"elevation", "mask", "graph", "topology", "paths"}

\* the try block of lines 599-816 encloses every stage
Caught(position) == position \in {"start", "elevation", "mask", "graph", "topology", "paths"}

\* lines 817-824: an exception raised by the running stage or by the progress
\* callback it has just invoked ends the request with a failure result; the
\* frame is unwound, so nothing of the grid, the graph or the segments is left
Raise ==
    /\ pc \in {"start", "elevation", "mask", "graph", "topology", "paths"}
    /\ ~(pc = "start" /\ Len(asset_positions) < 1)
    /\ progress_calls' = IF ReportedStep > 0
                         THEN Append(progress_calls, progress_percent(ReportedStep))
                         ELSE progress_calls
    /\ network' = IF ReportedStep > 0
                  THEN progress_callback(network, progress_percent(ReportedStep))
                  ELSE network
    /\ IF Caught(pc)
       THEN /\ log' = Append(log, [kind |-> "exception"])
            /\ result' = {FailureResult("Road network generation failed")}
            /\ pc' = "done"
       ELSE /\ log' = log
            /\ result' = result
            /\ pc' = "raised"
    /\ nodes' = <<>>
    /\ num_rows' = 0
    /\ num_cols' = 0
    /\ G' = EmptyGraph
    /\ mst_edges' = <<>>
    /\ edge_i' = 1
    /\ segments' = <<>>
    /\ all_grades' = <<>>
    /\ assets_connected_set' = {}
    /\ all_centerlines' = <<>>
    /\ road_polygons' = <<>>
    /\ algorithm_iterations' = 0
    /\ UNCHANGED <<harness, inputs>>

Next ==
    \/ NoAssets
    \/ GenerateGrid
    \/ LoadElevation
    \/ MarkExclusions
    \/ BuildGraph
    \/ ComputeTopology
    \/ RouteEdge
    \/ CompileResults
    \/ Raise

Spec == Init /\ [][Next]_vars

\* ------------------------------------------------ the endpoint's record
\* create_road_network: the record is created PENDING, set to PROCESSING, kept
\* up to date by the progress callback while generate_road_network runs, and
\* closed with the result
InitEndpoint ==
    /\ asset_positions \in AssetLists
    /\ entry_point \in EntryPoints
    /\ max_grade \in MaxGrades
    /\ optimization_criteria \in {"balanced", "minimal_grade"}
    /\ grid_resolution = 3
    /\ pc = "endpoint"
    /\ progress_calls = <<>>
    /\ nodes = <<>>
    /\ num_rows = 0
    /\ num_cols = 0
    /\ G = EmptyGraph
    /\ mst_edges = <<>>
    /\ edge_i = 1
    /\ log = <<>>
    /\ segments = <<>>
    /\ all_grades = <<>>
    /\ assets_connected_set = {}
    /\ all_centerlines = <<>>
    /\ road_polygons = <<>>
    /\ algorithm_iterations = 0
    /\ result = {}
    /\ call = Unset
    /\ runs = Unset
    /\ network = Unset

\* the request is refused before any record exists
NoAssetPositions ==
    /\ pc = "endpoint"
    /\ asset_positions = <<>>
    /\ pc' = "rejected"
    /\ UNCHANGED <<harness, network, inputs, progress_calls, nodes, num_rows, num_cols, G,
                   mst_edges, edge_i, log, accumulators, result>>

\* CRUDRoadNetwork.create: status PENDING, progress_percent 0 by default
CreateRecord ==
    /\ pc = "endpoint"
    /\ asset_positions # <<>>
    /\ network' = [status |-> "pending", progress_percent |-> 0, error_message |-> {}]
    /\ pc' = "created"
    /\ UNCHANGED <<harness, inputs, progress_calls, nodes, num_rows, num_cols, G,
                   mst_edges, edge_i, log, accumulators, result>>

\* the first update_status, then generate_road_network is entered
StartProcessing ==
    /\ pc = "created"
    /\ network' = update_status(network, "processing", 0, {})
    /\ pc' = "start"
    /\ UNCHANGED <<harness, inputs, progress_calls, nodes, num_rows, num_cols, G,
                   mst_edges, edge_i, log, accumulators, result>>

\* generate_road_network has returned: update_with_results and the response
StoreResults ==
    /\ pc = "done"
    /\ network # Unset
    /\ network' = update_with_results(network, CHOOSE r \in result : TRUE)
    /\ pc' = "responded"
    /\ UNCHANGED <<harness, inputs, progress_calls, nodes, num_rows, num_cols, G,
                   mst_edges, edge_i, log, accumulators, result>>

NextEndpoint ==
    \/ NoAssetPositions
    \/ CreateRecord
    \/ StartProcessing
    \/ GenerateGrid
    \/ LoadElevation
    \/ MarkExclusions
    \/ BuildGraph
    \/ ComputeTopology
    \/ RouteEdge
    \/ CompileResults
    \/ Raise
    \/ StoreResults

SpecEndpoint == InitEndpoint /\ [][NextEndpoint]_vars

\* ------------------------------------------ topology selector on its own
\* build_minimum_spanning_tree called directly, as the unit tests do: any list
\* of asset positions, with an empty grid, with a flat 2 x 2 grid or with a
\* sloping 2 x 2 grid that has a masked node
PlaneDem(a, b) == [kind |-> "raster", a |-> a, b |-> b, nodata_lo |-> 1, nodata_hi |-> 0,
                   fail_at |-> 0]
NodataDem == [kind |-> "raster", a |-> 0, b |-> 0, nodata_lo |-> 0, nodata_hi |-> 0,
              fail_at |-> 0]

Invalidated(nodes_, S) ==
    [i \in DOMAIN nodes_ |-> IF i \in S THEN [nodes_[i] EXCEPT !.is_valid = FALSE]
                             ELSE nodes_[i]]

FlatGrid == generate_pathfinding_grid(0, 0, 2, 2)
SlopingNodes == Invalidated(load_elevation_data(FlatGrid.nodes, PlaneDem(MaxSlope, MaxSlope)),
                            {1})
FlatNodes == load_elevation_data(FlatGrid.nodes,
                [kind |-> "none", a |-> 0, b |-> 0, nodata_lo |-> 1, nodata_hi |-> 0,
                 fail_at |-> 0])

InitTopology ==
    /\ asset_positions \in SeqsUpTo(Positions, MaxTopologyAssets)
    /\ entry_point = NoEntry
    /\ max_grade \in MaxGrades
    /\ optimization_criteria = "balanced"
    /\ grid_resolution \in Resolutions
    /\ pc = "mst_call"
    /\ progress_calls = <<>>
    /\ \/ /\ nodes = <<>>
          /\ num_rows = 0
          /\ num_cols = 0
          /\ G = EmptyGraph
       \/ /\ nodes = FlatNodes
          /\ num_rows = FlatGrid.num_rows
          /\ num_cols = FlatGrid.num_cols
          /\ G = build_graph(FlatNodes, FlatGrid.num_rows, FlatGrid.num_cols, max_grade,
                             optimization_criteria, grid_resolution)
       \/ /\ nodes = SlopingNodes
          /\ num_rows = FlatGrid.num_rows
          /\ num_cols = FlatGrid.num_cols
          /\ G = build_graph(SlopingNodes, FlatGrid.num_rows, FlatGrid.num_cols, max_grade,
                             optimization_criteria, grid_resolution)
    /\ mst_edges = <<>>
    /\ edge_i = 1
    /\ log = <<>>
    /\ segments = <<>>
    /\ all_grades = <<>>
    /\ assets_connected_set = {}
    /\ all_centerlines = <<>>
    /\ road_polygons = <<>>
    /\ algorithm_iterations = 0
    /\ result = {}
    /\ call = Unset
    /\ runs = Unset
    /\ network = Unset

CallMST ==
    /\ pc = "mst_call"
    /\ mst_edges' = build_minimum_spanning_tree(asset_positions, G, nodes, num_cols,
                                                grid_resolution)
    /\ pc' = "mst_done"
    /\ UNCHANGED <<harness, network, inputs, progress_calls, nodes, num_rows, num_cols, G, edge_i, log,
                   accumulators, result>>

NextTopology == CallMST

SpecTopology == InitTopology /\ [][NextTopology]_vars

\* ------------------------------------------- exclusion mask on its own
\* mark_exclusion_zones called directly, as the unit tests do, on node lists
\* that may already carry elevations and invalid nodes
MaskNodeLists ==
    LET grids == {generate_pathfinding_grid(-1, -1, 1, 1).nodes,
                  generate_pathfinding_grid(-1, -1, 2, 1).nodes}
        sampled == grids \cup {load_elevation_data(g, dem) :
                                  g \in grids, dem \in {PlaneDem(1, 1), NodataDem}}
    IN {Invalidated(g, S) : g \in sampled, S \in {{}, {1}, {2, 3}}}

MaskCalls ==
    Exclusions \cup
    {[zones |-> <<Strip(1, 3)>>, buffer |-> 0],
     [zones |-> <<BadZone, BadZone>>, buffer |-> 1],
     [zones |-> <<Strip(-3, -1), Strip(1, 3)>>, buffer |-> 0]}

InitMask ==
    /\ asset_positions = <<>>
    /\ entry_point = NoEntry
    /\ max_grade = 400
    /\ optimization_criteria = "balanced"
    /\ grid_resolution \in Resolutions
    /\ pc = "mask_call"
    /\ progress_calls = <<>>
    /\ nodes \in MaskNodeLists
    /\ num_rows = 0
    /\ num_cols = 0
    /\ G = EmptyGraph
    /\ mst_edges = <<>>
    /\ edge_i = 1
    /\ log = <<>>
    /\ segments = <<>>
    /\ all_grades = <<>>
    /\ assets_connected_set = {}
    /\ all_centerlines = <<>>
    /\ road_polygons = <<>>
    /\ algorithm_iterations = 0
    /\ result = {}
    /\ call \in MaskCalls
    /\ runs = Unset
    /\ network = Unset

CallMask ==
    /\ pc = "mask_call"
    /\ nodes' = mark_exclusion_zones(nodes, call.zones, call.buffer, grid_resolution)
    /\ pc' = "mask_done"
    /\ UNCHANGED <<harness, network, inputs, progress_calls, num_rows, num_cols, G, mst_edges,
                   edge_i, log, accumulators, result>>

NextMask == CallMask

SpecMask == InitMask /\ [][NextMask]_vars

\* ------------------------------------------------- simplifier on its own
\* simplify_path called directly, as the unit tests do, on any list of
\* distinct vertices, each with an elevation of its own, and called again on
\* what it returned
PathPoints == {0, 1} \X {0, 1, 2}
SimplifyPaths ==
    {[i \in DOMAIN ps |-> <<ps[i][1], ps[i][2], 10 * i>>] :
        ps \in {q \in SeqsUpTo(PathPoints, MaxPathLen) :
                  \A i \in DOMAIN q : \A j \in DOMAIN q : q[i] = q[j] => i = j}}
SimplifyTolerances == {1, SimplifyToleranceM}

InitSimplify ==
    /\ asset_positions = <<>>
    /\ entry_point = NoEntry
    /\ max_grade = 400
    /\ optimization_criteria = "balanced"
    /\ grid_resolution = 1
    /\ pc = "simplify_call"
    /\ progress_calls = <<>>
    /\ nodes = <<>>
    /\ num_rows = 0
    /\ num_cols = 0
    /\ G = EmptyGraph
    /\ mst_edges = <<>>
    /\ edge_i = 1
    /\ log = <<>>
    /\ segments = <<>>
    /\ all_grades = <<>>
    /\ assets_connected_set = {}
    /\ all_centerlines = <<>>
    /\ road_polygons = <<>>
    /\ algorithm_iterations = 0
    /\ result = {}
    /\ call \in [coords : SimplifyPaths, tolerance_m : SimplifyTolerances,
                 once : {<<>>}, twice : {<<>>}]
    /\ runs = Unset
    /\ network = Unset

CallSimplify ==
    /\ pc = "simplify_call"
    /\ call' = [call EXCEPT !.once = simplify_path(call.coords, call.tolerance_m,
                                                    grid_resolution)]
    /\ pc' = "simplified"
    /\ UNCHANGED <<runs, network, inputs, progress_calls, nodes, num_rows, num_cols, G, mst_edges,
                   edge_i, log, accumulators, result>>

CallSimplifyAgain ==
    /\ pc = "simplified"
    /\ call' = [call EXCEPT !.twice = simplify_path(call.once, call.tolerance_m,
                                                     grid_resolution)]
    /\ pc' = "resimplified"
    /\ UNCHANGED <<runs, network, inputs, progress_calls, nodes, num_rows, num_cols, G, mst_edges,
                   edge_i, log, accumulators, result>>

NextSimplify == CallSimplify \/ CallSimplifyAgain

SpecSimplify == InitSimplify /\ [][NextSimplify]_vars

\* ------------------------------------------------- two requests in flight
\* Two invocations of generate_road_network whose stages interleave. All the
\* variables but log are locals of an invocation: the variables hold those of
\* the request that is running and runs.frames those of a request that waits.
\* The module's logger, log, is the one object both requests write to.
Requests == {1, 2}
Other(r) == 3 - r

CurrentFrame ==
    [asset_positions |-> asset_positions, entry_point |-> entry_point,
     max_grade |-> max_grade, optimization_criteria |-> optimization_criteria,
     grid_resolution |-> grid_resolution, call |-> call,
     pc |-> pc, progress_calls |-> progress_calls,
     nodes |-> nodes, num_rows |-> num_rows, num_cols |-> num_cols, G |-> G,
     mst_edges |-> mst_edges, edge_i |-> edge_i,
     segments |-> segments, all_grades |-> all_grades,
     assets_connected_set |-> assets_connected_set,
     all_centerlines |-> all_centerlines, road_polygons |-> road_polygons,
     algorithm_iterations |-> algorithm_iterations, result |-> result]

\* lines 595-597: the locals of an invocation before its first statement
InitialFrame(a) ==
    [asset_positions |-> a.asset_positions, entry_point |-> a.entry_point,
     max_grade |-> a.max_grade, optimization_criteria |-> a.optimization_criteria,
     grid_resolution |-> a.grid_resolution,
     call |-> [dem |-> a.dem, zones |-> a.zones, buffer |-> a.buffer],
     pc |-> "start", progress_calls |-> <<>>,
     nodes |-> <<>>, num_rows |-> 0, num_cols |-> 0, G |-> EmptyGraph,
     mst_edges |-> <<>>, edge_i |-> 1,
     segments |-> <<>>, all_grades |-> <<>>, assets_connected_set |-> {},
     all_centerlines |-> <<>>, road_polygons |-> <<>>,
     algorithm_iterations |-> 0, result |-> {}]

\* the requests put in flight: flat terrain without raster, a slope that cuts
\* the entry point off, and a request without assets
PairArgs ==
    {[asset_positions |-> << <<0, 0>>, <<1, 1>> >>, entry_point |-> <<0, 1>>,
      max_grade |-> 1200, optimization_criteria |-> "minimal_length",
      grid_resolution |-> 1, dem |-> [kind |-> "none", a |-> 0, b |-> 0, nodata_lo |-> 1,
                                      nodata_hi |-> 0, fail_at |-> 0],
      zones |-> <<>>, buffer |-> 0],
     [asset_positions |-> << <<0, 0>>, <<1, 0>> >>, entry_point |-> <<0, 1>>,
      max_grade |-> 400, optimization_criteria |-> "balanced",
      grid_resolution |-> 1, dem |-> PlaneDem(0, 1),
      zones |-> <<BadZone>>, buffer |-> 0],
     [asset_positions |-> <<>>, entry_point |-> NoEntry,
      max_grade |-> 400, optimization_criteria |-> "minimal_grade",
      grid_resolution |-> 3, dem |-> NodataDem,
      zones |-> <<Strip(-1, 1)>>, buffer |-> 1]}

InitPair ==
    /\ runs \in {[active |-> 1, frames |-> <<InitialFrame(a1), InitialFrame(a2)>>] :
                    a1 \in PairArgs, a2 \in PairArgs}
    /\ asset_positions = runs.frames[1].asset_positions
    /\ entry_point = runs.frames[1].entry_point
    /\ max_grade = runs.frames[1].max_grade
    /\ optimization_criteria = runs.frames[1].optimization_criteria
    /\ grid_resolution = runs.frames[1].grid_resolution
    /\ call = runs.frames[1].call
    /\ pc = "start"
    /\ progress_calls = <<>>
    /\ nodes = <<>>
    /\ num_rows = 0
    /\ num_cols = 0
    /\ G = EmptyGraph
    /\ mst_edges = <<>>
    /\ edge_i = 1
    /\ log = <<>>
    /\ segments = <<>>
    /\ all_grades = <<>>
    /\ assets_connected_set = {}
    /\ all_centerlines = <<>>
    /\ road_polygons = <<>>
    /\ algorithm_iterations = 0
    /\ result = {}
    /\ network = Unset

\* variant: the progress tracker is one object kept outside the requests
ResumedProgressShared(saved, current) == current

\* line 596: each invocation constructs its own ProgressTracker
ResumedProgress(saved, current) == saved

\* the running request is suspended between two stages and the other resumes
\* with its own locals
Switch ==
    /\ runs # Unset
    /\ LET f == runs.frames[Other(runs.active)]
       IN /\ runs' = [active |-> Other(runs.active),
                      frames |-> [runs.frames EXCEPT ![runs.active] = CurrentFrame]]
          /\ asset_positions' = f.asset_positions
          /\ entry_point' = f.entry_point
          /\ max_grade' = f.max_grade
          /\ optimization_criteria' = f.optimization_criteria
          /\ grid_resolution' = f.grid_resolution
          /\ call' = f.call
          /\ pc' = f.pc
          /\ progress_calls' = ResumedProgress(f.progress_calls, progress_calls)
          /\ nodes' = f.nodes
          /\ num_rows' = f.num_rows
          /\ num_cols' = f.num_cols
          /\ G' = f.G
          /\ mst_edges' = f.mst_edges
          /\ edge_i' = f.edge_i
          /\ segments' = f.segments
          /\ all_grades' = f.all_grades
          /\ assets_connected_set' = f.assets_connected_set
          /\ all_centerlines' = f.all_centerlines
          /\ road_polygons' = f.road_polygons
          /\ algorithm_iterations' = f.algorithm_iterations
          /\ result' = f.result
    /\ UNCHANGED <<log, network>>

\* steps 2 and 3 of a request that was given its raster and its zones
LoadElevationCall == LoadElevationWith(call.dem)
MarkExclusionsCall == MarkExclusionsWith(call)

NextPair ==
    \/ NoAssets
    \/ GenerateGrid
    \/ LoadElevationCall
    \/ MarkExclusionsCall
    \/ BuildGraph
    \/ ComputeTopology
    \/ RouteEdge
    \/ CompileResults
    \/ Switch

SpecPair == InitPair /\ [][NextPair]_vars

\* =================================================================== claims
NumAssets == Len(asset_positions)

NodeGrade(u, v) ==
    calculate_grade(grid_resolution, nodes[u + 1].x, nodes[u + 1].y, nodes[u + 1].elevation,
                    nodes[v + 1].x, nodes[v + 1].y, nodes[v + 1].elevation)

LatticeNeighbours(u, v) ==
    /\ u # v
    /\ Abs(nodes[u + 1].row - nodes[v + 1].row) <= 1
    /\ Abs(nodes[u + 1].col - nodes[v + 1].col) <= 1

\* C1: every edge of the cost graph connects two nodes whose grade is at most
\* max_grade; a steeper pair of nodes has no edge at all.
C1_EdgesWithinGrade ==
    \A key \in DOMAIN G.attr : \A u \in key, v \in key :
        u # v => /\ NodeGrade(u, v) <= max_grade
                 /\ G.attr[key].grade <= max_grade

\* a built graph that has edges and from which a steep neighbour pair is missing
C1_Witness ==
    /\ DOMAIN G.attr # {}
    /\ \E u \in G.nodes, v \in G.nodes :
          /\ LatticeNeighbours(u, v)
          /\ NodeGrade(u, v) > max_grade
          /\ {u, v} \notin DOMAIN G.attr

PolylineWithinGrade(coords) ==
    \A i \in 1..(Len(coords) - 1) :
        calculate_grade(grid_resolution, coords[i][1], coords[i][2], coords[i][3],
                        coords[i + 1][1], coords[i + 1][2], coords[i + 1][3]) <= max_grade

\* C2: in a successful result every consecutive vertex pair of every segment
\* is within max_grade, max_grade_actual <= max_grade and grade_compliant holds.
C2_SegmentsWithinGrade ==
    \A r \in result :
        r.success =>
            /\ \A i \in DOMAIN r.road_details : PolylineWithinGrade(r.road_details[i].coordinates)
            /\ r.max_grade_actual <= max_grade
            /\ r.grade_compliant

\* C3: build_minimum_spanning_tree returns N - 1 edges for N >= 2 assets and
\* no edge for N <= 1, whatever grid and graph it is given.
C3_MSTCardinality ==
    pc = "mst_done" =>
        Len(mst_edges) = IF NumAssets >= 2 THEN NumAssets - 1 ELSE 0

\* three or more assets, two of them at the same position
C3_Witness ==
    /\ pc = "mst_done"
    /\ NumAssets >= 3
    /\ \E i \in DOMAIN asset_positions, j \in DOMAIN asset_positions :
          i # j /\ asset_positions[i] = asset_positions[j]
    /\ Len(mst_edges) = NumAssets - 1

EntryDistance(k) ==
    haversine_distance(grid_resolution, entry_point[1], entry_point[2],
                       asset_positions[k + 1][1], asset_positions[k + 1][2])

FlatUnmasked ==
    /\ nodes # <<>>
    /\ \A i \in DOMAIN nodes : Eligible(nodes[i]) /\ nodes[i].elevation = 0

\* C4: with an entry point the topology edges are the N - 1 spanning tree edges
\* followed by the one edge <<N, k>>, k the lowest-indexed asset nearest to the
\* entry point; without an entry point there are only the tree edges; two assets
\* and an entry point on flat unmasked terrain give two segments.
C4_EntryEdge ==
    /\ pc = "paths" =>
         LET treeLen == IF NumAssets >= 2 THEN NumAssets - 1 ELSE 0
         IN /\ \A i \in 1..Min2(treeLen, Len(mst_edges)) :
                  mst_edges[i][1] < NumAssets /\ mst_edges[i][2] < NumAssets
            /\ IF entry_point # NoEntry
               THEN /\ Len(mst_edges) = treeLen + 1
                    /\ mst_edges[treeLen + 1][1] = NumAssets
                    /\ LET k == mst_edges[treeLen + 1][2]
                       IN /\ k \in 0..(NumAssets - 1)
                          /\ \A j \in 0..(NumAssets - 1) :
                                /\ EntryDistance(k) <= EntryDistance(j)
                                /\ j < k => EntryDistance(k) < EntryDistance(j)
               ELSE Len(mst_edges) = treeLen
    /\ \A r \in result :
          (r.success /\ NumAssets = 2 /\ entry_point # NoEntry /\ FlatUnmasked)
              => r.total_segments = 2

\* two assets equally far from the entry point, routed on flat terrain
C4_Witness ==
    /\ \E r \in result : r.success /\ r.total_segments = 2
    /\ NumAssets = 2
    /\ entry_point # NoEntry
    /\ FlatUnmasked
    /\ asset_positions[1] # asset_positions[2]
    /\ EntryDistance(0) = EntryDistance(1)
    /\ mst_edges = << <<0, 1>>, <<2, 0>> >>

\* C5: without assets the request fails at once with "No assets to connect":
\* no grid, no stage, no progress report.
C5_NoAssetsFailsAtOnce ==
    NumAssets = 0 =>
        /\ pc \in {"start", "done"}
        /\ progress_calls = <<>>
        /\ nodes = <<>>
        /\ G = EmptyGraph
        /\ mst_edges = <<>>
        /\ log = <<>>
        /\ pc = "done" => result = {FailureResult("No assets to connect")}

C5_Witness == NumAssets = 0 /\ pc = "done" /\ result # {}

GraphBuilt == \E i \in DOMAIN log : log[i].kind = "graph_built"
ExceptionLogged == \E i \in DOMAIN log : log[i].kind = "exception"
Skips == SelectSeq(log, LAMBDA e : e.kind \in {"no_node", "no_path"})
NoEligibleNode == \A i \in DOMAIN nodes : ~Eligible(nodes[i])

\* C6: when the graph is built while no node is both valid and sampled, the
\* request ends there with the "No valid path nodes" failure: no topology, no
\* path search, no segment, and the progress reports are those of stages 1-4.
C6_EmptyGraphFails ==
    (GraphBuilt /\ nodes # <<>> /\ NoEligibleNode) =>
        /\ pc = "done"
        /\ result = {FailureResult("No valid path nodes (check exclusions/terrain)")}
        /\ \A r \in result : ~r.success /\ r.algorithm_iterations = 0 /\ r.total_segments = 0
        /\ progress_calls = <<16, 33, 50, 66>>
        /\ mst_edges = <<>>
        /\ algorithm_iterations = 0
        /\ segments = <<>>

\* an empty graph caused by the exclusion mask alone
C6_Witness ==
    /\ GraphBuilt
    /\ nodes # <<>>
    /\ NoEligibleNode
    /\ \E i \in DOMAIN nodes : nodes[i].sampled /\ ~nodes[i].is_valid
    /\ pc = "done"

RECURSIVE ReachFrom(_, _)
ReachFrom(g, S) ==
    LET S2 == S \cup {v \in g.nodes : \E u \in S : {u, v} \in DOMAIN g.attr}
    IN IF S2 = S THEN S ELSE ReachFrom(g, S2)

Routable(e) ==
    LET node1 == find_nearest_node(G, nodes, num_cols, grid_resolution,
                                   all_positions[e[1] + 1][1], all_positions[e[1] + 1][2])
        node2 == find_nearest_node(G, nodes, num_cols, grid_resolution,
                                   all_positions[e[2] + 1][1], all_positions[e[2] + 1][2])
    IN node1 # None /\ node2 # None /\ node2 \in ReachFrom(G, {node1})

SegmentEdges == [i \in DOMAIN segments |-> <<segments[i].from_node, segments[i].to_node>>]
SkippedEdges == [i \in DOMAIN Skips |-> Skips[i].edge]
Range(sq) == {sq[i] : i \in DOMAIN sq}

\* C7: once the graph has a vertex, a request that raises nothing succeeds;
\* every topology edge was attempted, the edges that cannot be routed are
\* skipped without a segment and the others have their segment.
C7_SkipsAreNotFatal ==
    (pc = "done" /\ GraphBuilt /\ G.nodes # {} /\ ~ExceptionLogged) =>
        /\ \A r \in result : r.success /\ r.total_segments = Len(segments)
        /\ Len(segments) + Len(Skips) = Len(mst_edges)
        /\ \A i \in DOMAIN mst_edges :
              IF Routable(mst_edges[i])
              THEN mst_edges[i] \in Range(SegmentEdges) /\ mst_edges[i] \notin Range(SkippedEdges)
              ELSE mst_edges[i] \in Range(SkippedEdges) /\ mst_edges[i] \notin Range(SegmentEdges)

\* a successful request whose first edge is skipped and whose second is routed
C7_Witness ==
    /\ pc = "done"
    /\ \E r \in result : r.success /\ r.total_segments = 1
    /\ Len(mst_edges) = 2
    /\ Len(Skips) = 1
    /\ Skips[1].edge = mst_edges[1]

\* C8: a successful result with a skipped topology edge has
\* connectivity_rate < 100.
C8_SkipLowersConnectivity ==
    \A r \in result : (r.success /\ Skips # <<>>) => r.connectivity_rate < 100

\* C9: an exception raised in any stage or by the progress callback never
\* leaves generate_road_network; it becomes a failure result with a message.
C9_ExceptionsBecomeResults ==
    /\ pc # "raised"
    /\ pc = "done" => result # {}
    /\ ExceptionLogged =>
          /\ pc = "done"
          /\ result = {FailureResult("Road network generation failed")}
          /\ \A r \in result : ~r.success /\ r.error_message # {}

\* an exception raised in the first stage, after its progress report
C9_Witness ==
    /\ ExceptionLogged
    /\ pc = "done"
    /\ Len(progress_calls) = 1

\* C10: success = FALSE exactly when error_message is set; a failure carries
\* no geometry; a success carries a centerline list as long as total_segments
\* and as road_details.segments.
C10_ResultWellFormed ==
    \A r \in result :
        /\ r.success <=> r.error_message = {}
        /\ ~r.success => /\ r.road_centerlines = {}
                         /\ r.total_segments = 0
                         /\ r.assets_connected = 0
        /\ r.success => /\ r.road_centerlines # {}
                        /\ \A cl \in r.road_centerlines : Len(cl) = r.total_segments
                        /\ r.total_segments = Len(r.road_details)

\* a success with a segment of a single vertex (both ends at one grid node)
C10_Witness ==
    \E r \in result :
        /\ r.success
        /\ r.total_segments >= 1
        /\ \E i \in DOMAIN r.road_details : Len(r.road_details[i].coordinates) = 1

Last(sq) == sq[Len(sq)]
Succeeded == \E r \in result : r.success

\* the work of stage k is complete: the pipeline stands behind it
StageDone(k) ==
    IF k = 1 THEN pc \in {"elevation", "mask", "graph", "topology", "paths"} \/ Succeeded
    ELSE IF k = 2 THEN pc \in {"mask", "graph", "topology", "paths"} \/ Succeeded
    ELSE IF k = 3 THEN pc \in {"graph", "topology", "paths"} \/ Succeeded
    ELSE IF k = 4 THEN \/ pc \in {"topology", "paths"}
                       \/ Succeeded
                       \/ result = {FailureResult("No valid path nodes (check exclusions/terrain)")}
    ELSE IF k = 5 THEN (pc = "paths" /\ edge_i > Len(mst_edges)) \/ Succeeded
    ELSE Succeeded
LastReportedStageDone == progress_calls = <<>> \/ StageDone(Len(progress_calls))

\* C11: the progress report of stage k is made only once the work of stage k is
\* complete; a report of 100 is made only with the compiled results and no
\* failure result follows it.
C11_ReportAfterStage ==
    [][progress_calls' # progress_calls => LastReportedStageDone']_vars

IsPrefix(a, b) == Len(a) <= Len(b) /\ \A i \in DOMAIN a : a[i] = b[i]

\* C12: the progress reports are a prefix of 16, 33, 50, 66, 83, 100 and a
\* successful request has made all six.
C12_ProgressSequence ==
    /\ IsPrefix(progress_calls, <<16, 33, 50, 66, 83, 100>>)
    /\ Succeeded => progress_calls = <<16, 33, 50, 66, 83, 100>>

\* a success with its six reports
C12_Witness ==
    /\ Succeeded
    /\ Len(progress_calls) = 6
    /\ Last(progress_calls) = 100

EndpointAssets(details, n) ==
    {i \in 0..(n - 1) : \E k \in DOMAIN details :
        details[k].from_node = i \/ details[k].to_node = i}

\* C13: a successful result counts the assets that are an endpoint of a
\* returned segment, never the entry point; connectivity_rate is that count
\* over the number of assets, in percent, between 0 and 100; one asset without
\* entry point has no segment and rate 0.
C13_Connectivity ==
    \A r \in result :
        r.success =>
            /\ r.assets_connected = Cardinality(EndpointAssets(r.road_details, NumAssets))
            /\ r.assets_connected <= NumAssets
            /\ r.connectivity_rate = (r.assets_connected * 100) \div NumAssets
            /\ 0 <= r.connectivity_rate /\ r.connectivity_rate <= 100
            /\ (NumAssets = 1 /\ entry_point = NoEntry) =>
                  r.total_segments = 0 /\ r.connectivity_rate = 0

\* a success whose only segment ends at the entry point: one asset of two counted
C13_Witness ==
    \E r \in result :
        /\ r.success
        /\ NumAssets = 2
        /\ r.total_segments = 1
        /\ r.road_details[1].from_node = NumAssets
        /\ r.assets_connected = 1
        /\ r.connectivity_rate = 50

NoNodeSkips == SelectSeq(log, LAMBDA e : e.kind = "no_node")
NoPathSkips == SelectSeq(log, LAMBDA e : e.kind = "no_path")

\* C14: algorithm_iterations of a successful result is the number of topology
\* edges handed to A*: the routed edges and the edges without path, not the
\* edges without endpoint node; it lies between total_segments and the number of
\* topology edges.
C14_IterationCount ==
    \A r \in result :
        r.success =>
            /\ r.algorithm_iterations = Len(mst_edges) - Len(NoNodeSkips)
            /\ r.algorithm_iterations = r.total_segments + Len(NoPathSkips)
            /\ r.total_segments <= r.algorithm_iterations
            /\ r.algorithm_iterations <= Len(mst_edges)

\* a success with one routed edge and one edge for which A* found no path
C14_Witness ==
    \E r \in result :
        /\ r.success
        /\ r.total_segments = 1
        /\ Len(NoPathSkips) = 1
        /\ r.algorithm_iterations = 2

NoDemLogged == \E i \in DOMAIN log : log[i].kind = "no_dem"
DemErrorLogged == \E i \in DOMAIN log : log[i].kind = "dem_error"
BothValid(u, v) == nodes[u + 1].is_valid /\ nodes[v + 1].is_valid
NodeIndices == {i - 1 : i \in DOMAIN nodes}

\* C17: without a raster every grid node has elevation 0, the graph keeps the
\* edge between every two valid lattice neighbours whatever max_grade and the
\* policy are, and a successful result has avg_grade = 0, max_grade_actual = 0
\* and grade_compliant.
C17_NoDemIsFlat ==
    NoDemLogged =>
        /\ \A i \in DOMAIN nodes : nodes[i].sampled /\ nodes[i].elevation = 0
        /\ (GraphBuilt /\ nodes # <<>>) =>
              \A u \in NodeIndices, v \in NodeIndices :
                  (LatticeNeighbours(u, v) /\ BothValid(u, v)) => {u, v} \in DOMAIN G.attr
        /\ \A r \in result :
              r.success => r.avg_grade = 0 /\ r.max_grade_actual = 0 /\ r.grade_compliant

\* a success without raster that has a segment, under the steepest-averse policy
C17_Witness ==
    /\ NoDemLogged
    /\ optimization_criteria = "minimal_grade"
    /\ \E r \in result : r.success /\ r.total_segments >= 1 /\ r.total_road_length > 0

\* C18: when the read of the raster fails, on open or at a later node, the
\* elevation loader returns normally with every node at elevation 0: no node
\* keeps a sampled elevation.
C18_ReadFailureIsFlat ==
    DemErrorLogged =>
        /\ \A i \in DOMAIN nodes : nodes[i].sampled /\ nodes[i].elevation = 0
        /\ Last(log).kind = "dem_error" =>
              pc \in {"mask", "graph"} /\ nodes # <<>> /\ result = {}

\* a read that failed part-way, after the first nodes had been sampled
C18_Witness ==
    /\ pc = "mask"
    /\ nodes # <<>>
    /\ log # <<>>
    /\ Last(log).kind = "dem_error"
    /\ Last(log).error = "sample"

ValidWithElevation == {i - 1 : i \in {j \in DOMAIN nodes : nodes[j].is_valid /\ nodes[j].sampled}}
TargetPositions == {all_positions[i] : i \in DOMAIN all_positions}
NodeAt(c) == {u \in NodeIndices : nodes[u + 1].x = c[1] /\ nodes[u + 1].y = c[2]
                                   /\ nodes[u + 1].elevation = c[3]}

\* C19: the vertices of the cost graph are exactly the grid nodes that are
\* valid and have an elevation; no other node is an edge endpoint, is returned
\* by find_nearest_node or is a vertex of a returned segment.
C19_VerticesAreEligibleNodes ==
    (GraphBuilt /\ nodes # <<>>) =>
        /\ G.nodes = ValidWithElevation
        /\ \A key \in DOMAIN G.attr : key \subseteq ValidWithElevation
        /\ \A n \in DOMAIN G.adj : \A k \in DOMAIN G.adj[n] :
              G.adj[n][k] \in ValidWithElevation
        /\ \A p \in TargetPositions :
              find_nearest_node(G, nodes, num_cols, grid_resolution, p[1], p[2])
                  \in ValidWithElevation \cup {None}
        /\ \A i \in DOMAIN segments : \A k \in DOMAIN segments[i].coordinates :
              /\ NodeAt(segments[i].coordinates[k]) # {}
              /\ NodeAt(segments[i].coordinates[k]) \subseteq ValidWithElevation

\* a routed segment on a grid that has a masked node and an unmasked node
\* without elevation
C19_Witness ==
    /\ Succeeded
    /\ \E i \in DOMAIN segments : Len(segments[i].coordinates) >= 2
    /\ \E i \in DOMAIN nodes : ~nodes[i].is_valid
    /\ \E i \in DOMAIN nodes : nodes[i].is_valid /\ ~nodes[i].sampled

NoUsableZone(zones) == zones = <<>> \/ \A z \in DOMAIN zones : ~zones[z].ok
InsideSomeZone(node) ==
    \E z \in DOMAIN call.zones :
        /\ call.zones[z].ok
        /\ ZoneContains(call.zones[z], call.buffer, grid_resolution, node.x, node.y)

\* C20: mark_exclusion_zones keeps the node list as it is, node for node, but
\* for validity flags that go from true to false; no flag goes back to true;
\* with no zone, or only zones that cannot be parsed, no node changes.
C20_MaskFrame ==
    [][(pc = "mask_call" /\ pc' = "mask_done") =>
          /\ Len(nodes') = Len(nodes)
          /\ \A i \in DOMAIN nodes :
                /\ nodes'[i].x = nodes[i].x /\ nodes'[i].y = nodes[i].y
                /\ nodes'[i].row = nodes[i].row /\ nodes'[i].col = nodes[i].col
                /\ nodes'[i].elevation = nodes[i].elevation
                /\ nodes'[i].sampled = nodes[i].sampled
                /\ nodes'[i].is_valid => nodes[i].is_valid
          /\ NoUsableZone(call.zones) => nodes' = nodes]_vars

\* after the call: a node invalid though outside every zone (it was invalid
\* before), a node the call has covered, and a node still valid
C20_Witness ==
    /\ pc = "mask_done"
    /\ \E i \in DOMAIN nodes : ~nodes[i].is_valid /\ ~InsideSomeZone(nodes[i])
    /\ \E i \in DOMAIN nodes : ~nodes[i].is_valid /\ InsideSomeZone(nodes[i])
    /\ \E i \in DOMAIN nodes : nodes[i].is_valid

FrameOf(r) == IF r = runs.active THEN CurrentFrame ELSE runs.frames[r]
ArgsOf(f) == <<f.asset_positions, f.entry_point, f.max_grade, f.optimization_criteria,
               f.grid_resolution, f.call>>
InterleavedLog == Len(log) >= 2 /\ log[1].kind = "no_dem" /\ log[2].kind = "no_dem"

RECURSIVE RouteAll(_, _, _, _, _, _, _)
RouteAll(a, positions, nodes_, num_cols_, g, edges, acc) ==
    IF acc.i > Len(edges) THEN acc
    ELSE LET e == edges[acc.i]
             node1 == find_nearest_node(g, nodes_, num_cols_, a.grid_resolution,
                                        positions[e[1] + 1][1], positions[e[1] + 1][2])
             node2 == find_nearest_node(g, nodes_, num_cols_, a.grid_resolution,
                                        positions[e[2] + 1][1], positions[e[2] + 1][2])
             path == astar_path(g, node1, node2, nodes_, a.grid_resolution)
             coords == simplify_path(extract_path_coordinates(path, nodes_),
                                     SimplifyToleranceM, a.grid_resolution)
             m == calculate_segment_metrics(coords, a.grid_resolution)
             polygon == create_road_polygon(coords)
         IN IF node1 = None \/ node2 = None
            THEN RouteAll(a, positions, nodes_, num_cols_, g, edges, [acc EXCEPT !.i = @ + 1])
            ELSE IF path = <<None>>
            THEN RouteAll(a, positions, nodes_, num_cols_, g, edges,
                          [acc EXCEPT !.i = @ + 1, !.iterations = @ + 1])
            ELSE RouteAll(a, positions, nodes_, num_cols_, g, edges,
                    [i |-> acc.i + 1,
                     iterations |-> acc.iterations + 1,
                     segments |-> Append(acc.segments,
                         [id |-> Len(acc.segments), from_node |-> e[1], to_node |-> e[2],
                          coordinates |-> coords, length_m |-> m.length_m,
                          avg_grade |-> m.avg_grade, max_grade |-> m.max_grade]),
                     grades |-> IF m.max_grade > 0
                                THEN acc.grades \o <<m.avg_grade, m.max_grade>>
                                ELSE Append(acc.grades, m.avg_grade),
                     connected |-> acc.connected \cup {e[1], e[2]},
                     centerlines |-> Append(acc.centerlines,
                         [k \in DOMAIN coords |-> <<coords[k][1], coords[k][2]>>]),
                     polygons |-> IF polygon # NoPolygon THEN Append(acc.polygons, polygon)
                                  ELSE acc.polygons])

RunAlone(a) ==
    IF Len(a.asset_positions) < 1
    THEN [progress_calls |-> <<>>, result |-> FailureResult("No assets to connect")]
    ELSE
    LET points == IF a.entry_point # NoEntry THEN Append(a.asset_positions, a.entry_point)
                  ELSE a.asset_positions
        xs == [i \in DOMAIN points |-> points[i][1]]
        ys == [i \in DOMAIN points |-> points[i][2]]
        pad == Max2(1, (SeqMax(xs) - SeqMin(xs)) \div 10)
        grid == generate_pathfinding_grid(SeqMin(xs) - pad, SeqMin(ys) - pad,
                                          SeqMax(xs) + pad, SeqMax(ys) + pad)
        masked == mark_exclusion_zones(load_elevation_data(grid.nodes, a.dem),
                                       a.zones, a.buffer, a.grid_resolution)
        g == build_graph(masked, grid.num_rows, grid.num_cols, a.max_grade,
                         a.optimization_criteria, a.grid_resolution)
        edges == TopologyEdges(a.asset_positions, a.entry_point, g, masked, grid.num_cols,
                               a.grid_resolution)
        acc == RouteAll(a, points, masked, grid.num_cols, g, edges,
                        [i |-> 1, iterations |-> 0, segments |-> <<>>, grades |-> <<>>,
                         connected |-> {}, centerlines |-> <<>>, polygons |-> <<>>])
        overall == IF acc.grades = <<>> THEN 0 ELSE SeqMax(acc.grades)
        counted == Cardinality({i \in acc.connected : i < Len(a.asset_positions)})
    IN IF g.nodes = {}
       THEN [progress_calls |-> <<16, 33, 50, 66>>,
             result |-> FailureResult("No valid path nodes (check exclusions/terrain)")]
       ELSE [progress_calls |-> <<16, 33, 50, 66, 83, 100>>,
             result |->
               [success |-> TRUE,
                road_centerlines |-> {acc.centerlines},
                road_polygons |-> IF acc.polygons # <<>> THEN {acc.polygons} ELSE {},
                road_details |-> acc.segments,
                total_road_length |->
                    SeqSum([i \in DOMAIN acc.segments |-> acc.segments[i].length_m]),
                total_segments |-> Len(acc.segments),
                avg_grade |-> IF acc.grades = <<>> THEN 0 ELSE Mean(acc.grades),
                max_grade_actual |-> overall,
                grade_compliant |-> (overall <= a.max_grade),
                assets_connected |-> counted,
                connectivity_rate |-> (counted * 100) \div Len(a.asset_positions),
                algorithm_iterations |-> acc.iterations,
                error_message |-> {}]]

AloneArgs(f) ==
    [asset_positions |-> f.asset_positions, entry_point |-> f.entry_point,
     max_grade |-> f.max_grade, optimization_criteria |-> f.optimization_criteria,
     grid_resolution |-> f.grid_resolution, dem |-> f.call.dem, zones |-> f.call.zones,
     buffer |-> f.call.buffer]

\* C16: of two invocations in flight each returns the result, and makes the
\* progress reports, it would alone, whatever the other is given and however
\* their stages interleave.
C16_NoSharedState ==
    \A r \in Requests :
        FrameOf(r).pc = "done" =>
            /\ FrameOf(r).result = {RunAlone(AloneArgs(FrameOf(r))).result}
            /\ FrameOf(r).progress_calls = RunAlone(AloneArgs(FrameOf(r))).progress_calls

\* two requests with different arguments that ran interleaved: one routed its
\* two edges, the other skipped one
C16_Witness ==
    /\ FrameOf(1).pc = "done"
    /\ FrameOf(2).pc = "done"
    /\ ArgsOf(FrameOf(1)) # ArgsOf(FrameOf(2))
    /\ \E r \in FrameOf(1).result : r.success /\ r.total_segments = 2
    /\ \E r \in FrameOf(2).result : r.success /\ r.total_segments = 1
    /\ \E i \in DOMAIN log : i + 1 \in DOMAIN log /\ log[i].kind = "graph_built"
                                /\ log[i + 1].kind = "graph_built"

EdgeEnds(key) == CHOOSE p \in key \X key : p[1] < p[2]
NodeDistance(u, v) ==
    haversine_distance(grid_resolution, nodes[u + 1].x, nodes[u + 1].y,
                       nodes[v + 1].x, nodes[v + 1].y)

\* C21: under each policy every edge weighs at least its distance (the
\* great-circle distance of its endpoints), and exactly its distance when the
\* policy is minimal_length or the grade of the edge is 0.
C21_WeightAtLeastDistance ==
    pc = "topology" =>
        \A key \in DOMAIN G.attr :
            LET e == G.attr[key]
                ends == EdgeEnds(key)
            IN /\ e.distance = NodeDistance(ends[1], ends[2])
               /\ e.grade = NodeGrade(ends[1], ends[2])
               /\ e.weight >= 100 * e.distance
               /\ e.weight = 100 * e.distance <=>
                     (optimization_criteria = "minimal_length" \/ e.grade = 0)

\* a graph built under the balanced policy with a level edge and a sloping one
C21_Witness ==
    /\ pc = "topology"
    /\ optimization_criteria = "balanced"
    /\ \E key \in DOMAIN G.attr : G.attr[key].grade = 0
    /\ \E key \in DOMAIN G.attr :
          G.attr[key].grade > 0 /\ G.attr[key].weight > 100 * G.attr[key].distance

\* reference for the cheapest routes: distances from s by repeated relaxation
\* over the edge attributes, until nothing improves
SetMin(S) == CHOOSE m \in S : \A x \in S : m <= x
RECURSIVE Relaxed(_, _)
Relaxed(g, dist) ==
    LET reached(v) == dist[v] # None
        found(v) == (IF reached(v) THEN {dist[v]} ELSE {}) \cup
                    {dist[u] + g.attr[{u, v}].weight :
                        u \in {w \in g.nodes : reached(w) /\ {w, v} \in DOMAIN g.attr}}
        nxt == [v \in g.nodes |-> IF found(v) = {} THEN None ELSE SetMin(found(v))]
    IN IF nxt = dist THEN dist ELSE Relaxed(g, nxt)
\* None for a vertex that cannot be reached from s
CheapestFrom(g, s) == Relaxed(g, [v \in g.nodes |-> IF v = s THEN 0 ELSE None])
PathWeight(g, path) ==
    SeqSum([i \in 1..(Len(path) - 1) |-> g.attr[{path[i], path[i + 1]}].weight])
AlongEdges(g, path) ==
    \A i \in 1..(Len(path) - 1) : {path[i], path[i + 1]} \in DOMAIN g.attr
\* every grid index, None, and an index past the grid
AstarEnds == NodeIndices \cup {None, Len(nodes)}
AstarAnswers(s, t, best) ==
    LET path == astar_path(G, s, t, nodes, grid_resolution)
    IN IF s \notin G.nodes \/ t \notin G.nodes \/ best[t] = None
       THEN path = <<None>>
       ELSE /\ path # <<None>>
            /\ path[1] = s
            /\ Last(path) = t
            /\ AlongEdges(G, path)
            /\ PathWeight(G, path) = best[t]

\* C22: astar_path(G, s, t) returns a path that starts at s, ends at t, runs
\* along edges of the graph and has the least total weight of all such paths;
\* it returns None exactly when s or t is no vertex or t cannot be reached.
C22_AstarCheapest ==
    pc = "topology" =>
        \A s \in AstarEnds :
            LET best == IF s \in G.nodes THEN CheapestFrom(G, s)
                        ELSE [v \in G.nodes |-> None]
            IN \A t \in AstarEnds :
                  AstarAnswers(s, t, IF t \in G.nodes THEN best ELSE (t :> None))

\* a graph with a sloping edge under a penalising policy, where the search
\* between one pair of vertices returns three vertices or more and another
\* pair of vertices is not joined at all
C22_Witness ==
    /\ pc = "topology"
    /\ \E s \in G.nodes : \E t \in G.nodes : t \notin ReachFrom(G, {s})
    /\ \E s \in G.nodes : \E t \in G.nodes :
          /\ t \in ReachFrom(G, {s})
          /\ Len(astar_path(G, s, t, nodes, grid_resolution)) >= 3
          /\ optimization_criteria # "minimal_length"
          /\ \E key \in DOMAIN G.attr : G.attr[key].grade > 0

\* C23: simplifying an already simplified path with the same tolerance returns
\* the same vertex sequence, positions and elevations.
C23_SimplifyIdempotent ==
    pc = "resimplified" => call.twice = call.once

\* C24: the grid is row-major: len(nodes) = num_rows * num_cols, the node at
\* (zero-based) list position i has row = i div num_cols and col = i mod
\* num_cols, every node lies within the bounds the grid was asked for, and as
\* generated every node is valid and has no elevation.
C24_GridRowMajor ==
    pc = "elevation" =>
        LET minx == SeqMin(lons) - padding
            maxx == SeqMax(lons) + padding
            miny == SeqMin(lats) - padding
            maxy == SeqMax(lats) + padding
        IN /\ Len(nodes) = num_rows * num_cols
           /\ \A i \in DOMAIN nodes :
                 /\ nodes[i].row = (i - 1) \div num_cols
                 /\ nodes[i].col = (i - 1) % num_cols
                 /\ nodes[i].row \in 0..(num_rows - 1)
                 /\ minx <= nodes[i].x /\ nodes[i].x <= maxx
                 /\ miny <= nodes[i].y /\ nodes[i].y <= maxy
                 /\ nodes[i].is_valid /\ ~nodes[i].sampled

\* a grid of several rows and more columns than rows, just generated
C24_Witness ==
    /\ pc = "elevation"
    /\ num_rows > 1
    /\ num_cols > num_rows
    /\ Len(nodes) = num_rows * num_cols

NoRepeats(sq) == \A i \in DOMAIN sq : \A j \in DOMAIN sq : sq[i] = sq[j] => i = j

\* C25: two vertices of the cost graph are joined by an edge exactly when they
\* are 8-neighbours on the lattice and their grade is at most max_grade; no
\* edge joins a vertex to itself, no pair is joined twice, and the weight of an
\* edge is the one computed from either of its endpoints.
C25_EdgesCompleteAndSound ==
    pc = "topology" =>
        /\ \A u \in G.nodes : \A v \in G.nodes :
              /\ {u, v} \in DOMAIN G.attr <=>
                    (LatticeNeighbours(u, v) /\ NodeGrade(u, v) <= max_grade)
              /\ {u, v} \in DOMAIN G.attr =>
                    /\ G.attr[{u, v}].weight =
                         EdgeWeight(optimization_criteria, NodeDistance(u, v), NodeGrade(u, v))
                    /\ G.attr[{u, v}].weight =
                         EdgeWeight(optimization_criteria, NodeDistance(v, u), NodeGrade(v, u))
              /\ {u, v} \in DOMAIN G.attr <=> \E k \in DOMAIN G.adj[u] : G.adj[u][k] = v
        /\ \A key \in DOMAIN G.attr : Cardinality(key) = 2 /\ key \subseteq G.nodes
        /\ \A u \in G.nodes : NoRepeats(G.adj[u])

\* a graph with a diagonal edge, a sloping edge entered from both of its ends,
\* and a pair of neighbours too steep to be joined
C25_Witness ==
    /\ pc = "topology"
    /\ \E u \in G.nodes : \E v \in G.nodes :
          /\ {u, v} \in DOMAIN G.attr
          /\ nodes[u + 1].row # nodes[v + 1].row
          /\ nodes[u + 1].col # nodes[v + 1].col
    /\ \E key \in DOMAIN G.attr : G.attr[key].grade > 0
    /\ \E u \in G.nodes : \E v \in G.nodes :
          LatticeNeighbours(u, v) /\ NodeGrade(u, v) > max_grade

\* a is b with some elements left out, the order kept
RECURSIVE IsSubsequenceFrom(_, _, _, _)
IsSubsequenceFrom(a, b, i, j) ==
    IF i > Len(a) THEN TRUE
    ELSE IF j > Len(b) THEN FALSE
    ELSE IF a[i] = b[j] THEN IsSubsequenceFrom(a, b, i + 1, j + 1)
    ELSE IsSubsequenceFrom(a, b, i, j + 1)
NodeTriple(u) == <<nodes[u + 1].x, nodes[u + 1].y, nodes[u + 1].elevation>>
NearestTo(asset_idx) ==
    find_nearest_node(G, nodes, num_cols, grid_resolution,
                      all_positions[asset_idx + 1][1], all_positions[asset_idx + 1][2])
RawPath(seg) == astar_path(G, NearestTo(seg.from_node), NearestTo(seg.to_node), nodes,
                           grid_resolution)

\* C26: the polyline of every segment is an order-preserving subsequence of
\* the raw A* node path of its edge (a, b): it starts at the grid node nearest
\* to a, ends at the grid node nearest to b, and every vertex it keeps has the
\* position and the elevation of a node of the raw path. Stated of the segment
\* kept last, which every segment is when it is kept.
C26_PolylineIsSubsequence ==
    (pc = "paths" /\ segments # <<>>) =>
        LET seg == Last(segments)
            path == RawPath(seg)
            raw == [k \in DOMAIN path |-> NodeTriple(path[k])]
            coords == seg.coordinates
        IN /\ path # <<None>>
           /\ coords # <<>>
           /\ IsSubsequenceFrom(coords, raw, 1, 1)
           /\ coords[1] = NodeTriple(NearestTo(seg.from_node))
           /\ Last(coords) = NodeTriple(NearestTo(seg.to_node))

\* a segment on sloping ground whose raw path lost a vertex
C26_Witness ==
    /\ pc = "paths"
    /\ \E i \in DOMAIN segments :
          /\ Len(RawPath(segments[i])) > Len(segments[i].coordinates)
          /\ segments[i].coordinates[1][3] # Last(segments[i].coordinates)[3]

\* C27: the avg_grade of a successful result is the arithmetic mean of the
\* avg_grade of its segments, and 0 when it has no segment.
C27_AvgGradeIsSegmentMean ==
    \A r \in result :
        r.success =>
            r.avg_grade = IF r.road_details = <<>> THEN 0
                          ELSE Mean([i \in DOMAIN r.road_details |->
                                       r.road_details[i].avg_grade])

\* the spanning trees of the complete graph on 0..n-1, each as the map from a
\* vertex other than 0 to its parent towards 0
RECURSIVE ReachesRoot(_, _, _)
ReachesRoot(par, v, k) ==
    IF v = 0 THEN TRUE
    ELSE IF k = 0 THEN FALSE
    ELSE ReachesRoot(par, par[v], k - 1)
SpanningTrees(n) ==
    {par \in [1..(n - 1) -> 0..(n - 1)] : \A v \in 1..(n - 1) : ReachesRoot(par, v, n)}
TreeLength(par) ==
    SeqSum([v \in DOMAIN par |-> AssetDistance(asset_positions, grid_resolution, v, par[v])])
MstLength ==
    SeqSum([k \in DOMAIN mst_edges |->
              AssetDistance(asset_positions, grid_resolution, mst_edges[k][1], mst_edges[k][2])])
RECURSIVE JoinedFrom(_)
JoinedFrom(S) ==
    LET S2 == S \cup {v \in 0..(NumAssets - 1) :
                        \E k \in DOMAIN mst_edges :
                            \/ mst_edges[k][1] \in S /\ mst_edges[k][2] = v
                            \/ mst_edges[k][2] \in S /\ mst_edges[k][1] = v}
    IN IF S2 = S THEN S ELSE JoinedFrom(S2)

\* C28: for N >= 2 assets the edges of build_minimum_spanning_tree are a
\* spanning tree of 0..N-1 (N - 1 edges that join every index), no spanning
\* tree of the complete asset graph has a smaller total great-circle length,
\* and the same edges come out without any grid or graph.
C28_MinimumSpanningTree ==
    (pc = "mst_done" /\ NumAssets >= 2) =>
        /\ Len(mst_edges) = NumAssets - 1
        /\ \A k \in DOMAIN mst_edges :
              /\ mst_edges[k][1] \in 0..(NumAssets - 1)
              /\ mst_edges[k][2] \in 0..(NumAssets - 1)
              /\ mst_edges[k][1] # mst_edges[k][2]
        /\ JoinedFrom({0}) = 0..(NumAssets - 1)
        /\ LET length == MstLength
           IN \A par \in SpanningTrees(NumAssets) : length <= TreeLength(par)
        /\ mst_edges = build_minimum_spanning_tree(asset_positions, EmptyGraph, <<>>, 0,
                                                   grid_resolution)

\* four assets or more at three positions, on the sloping grid with its mask,
\* where the tree is shorter than the chain 0 - 1 - 2 - ... would be
C28_Witness ==
    /\ pc = "mst_done"
    /\ NumAssets >= 4
    /\ nodes = SlopingNodes
    /\ Cardinality(Range(asset_positions)) = 3
    /\ MstLength < TreeLength([v \in 1..(NumAssets - 1) |-> v - 1])

\* C29: every segment of a successful result has at least two vertices and a
\* corridor polygon of its own, so road_polygons is present whenever
\* total_segments > 0.
C29_SegmentsHavePolygons ==
    \A r \in result :
        r.success =>
            /\ \A i \in DOMAIN r.road_details : Len(r.road_details[i].coordinates) >= 2
            /\ r.total_segments > 0 =>
                  /\ r.road_polygons # {}
                  /\ \A polygons \in r.road_polygons : Len(polygons) = r.total_segments

StatusRank(db_obj) ==
    IF db_obj = Unset THEN 0
    ELSE IF db_obj.status = "pending" THEN 1
    ELSE IF db_obj.status = "processing" THEN 2
    ELSE 3
Closed(db_obj) == db_obj # Unset /\ db_obj.status \in {"completed", "failed"}

\* C30: the record goes PENDING -> PROCESSING -> (COMPLETED | FAILED) and never
\* back: it is created PENDING, every progress report leaves it PROCESSING at
\* the reported percentage, a closed record does not change, and when the
\* request responds the record is COMPLETED if the result is a success and
\* FAILED otherwise; COMPLETED comes with progress_percent = 100 and FAILED
\* with an error message.
C30_RecordLifecycle ==
    [][/\ StatusRank(network') >= StatusRank(network)
       /\ StatusRank(network') <= StatusRank(network) + 1
       /\ (network # Unset /\ network' # Unset) =>
             network'.status \in {"pending", "processing", "completed", "failed"}
       /\ Closed(network) => network' = network
       /\ progress_calls' # progress_calls =>
             /\ network'.status = "processing"
             /\ network'.progress_percent = Last(progress_calls')
       /\ pc' = "responded" =>
             /\ network'.status = IF \E r \in result' : r.success THEN "completed"
                                  ELSE "failed"
             /\ network'.status = "completed" => network'.progress_percent = 100
             /\ network'.status = "failed" => network'.error_message # {}
       /\ Closed(network') => pc' = "responded"]_vars

\* a record closed as FAILED after four progress reports
C30_Witness ==
    /\ pc = "responded"
    /\ network.status = "failed"
    /\ network.progress_percent = 66
    /\ Len(progress_calls) = 4

====
